---------------------------- MODULE Spec2Model ----------------------------
(***************************************************************************)
(* A model of the CINETIME watch-tracking backend.                         *)
(*                                                                         *)
(* The persisted document store (users, media, episodes) is the shared     *)
(* state.  Every HTTP handler is an async function: it runs synchronously  *)
(* up to an `await` (a store query, a catalog call), so one action of the  *)
(* model is "the awaited operation takes effect and the handler runs on    *)
(* to its next await or to its response".  A request lives in a slot of    *)
(* `req` from its first awaited operation until Return.                    *)
(*                                                                         *)
(* Mongoose semantics used by the handlers and modelled here:              *)
(*   - doc.save() of a loaded document writes only the paths whose value   *)
(*     was changed after loading ($set of the modified paths); it fails    *)
(*     when the document is gone from the collection;                      *)
(*   - Model.updateOne(filter, obj, {upsert: true}) with a plain object    *)
(*     is a $set of obj's fields, inserting filter+obj when nothing        *)
(*     matches;                                                            *)
(*   - save() of a new document runs the schema validators (enum).         *)
(***************************************************************************)
EXTENDS Integers, Sequences, FiniteSets, TLC

\* ------------------------------------------------------------ bounds
MaxRequests == 4
MaxMediaId == 2
MaxEpisodes == 2
MaxTime == 12
MaxResetTime == 90

\* ------------------------------------------------------------ values
Undef == -1

Users == {"A", "B"}
Slots == {1, 2}
TmdbIds == {1}
Seasons == {1}
\* (a status list with one value too many)
MediaStatusesAndBogus == {"planned", "watching", "completed", "bogus"}

MediaStatuses == {"planned", "watching", "completed"}
EpisodeStatuses == {"unwatched", "watched", "skipped"}

\* request bodies the handlers are driven with
BodyTmdbIds == TmdbIds \cup {0}
BodyTypes == {"movie", "tv", "book"}
BodyMediaStatuses == MediaStatuses \cup {"none", "bogus"}
BodyEpisodeStatuses == EpisodeStatuses \cup {"none", "bogus"}
BodyRatings == {Undef, 0, 1, 5, 6}
MediaIds == 0 .. MaxMediaId

\* catalog (TMDB) answers to a details call; 0 stands for a field the catalog omits
Details(oks, runtimes, numbers, runTimes) ==
    [ok : oks, runtime : runtimes, number_of_episodes : numbers,
     episode_run_time : runTimes]
\* ... and to a season call: the first n episodes of the season, or a failure
SeasonAnswers(oks, ns) == [ok : oks, n : ns]

\* accounts: e-mail addresses, passwords, one-time codes ("" is a body without one)
Emails == {"a@x.io", "b@x.io"}
Passwords == {"pw1"}
Otps == {"111111", "222222"}
NoOtp == ""

\* the lifetime of a one-time code, in minutes
OtpTtl == 10

\* reset tokens: a fresh random token is the number of the request that drew
\* it; 0 is a token nobody was sent.  Their lifetime, in minutes
ResetTokens == 0 .. MaxRequests
ResetTtl == 60
NoToken == <<>>
\* new passwords a reset body carries ("" is a body without one)
ResetPasswords == {"", "short", "longer1"}
MinPasswordLength == 6

DefaultMovieRuntime == 120
DefaultEpisodeRuntime == 45

\* JavaScript's  x || d  on numbers
OrDefault(x, d) == IF x = 0 THEN d ELSE x

\* media, episodes, users: the three collections; nextMediaId: the next fresh
\* Media _id; now: the clock (minutes); req: the requests in flight; nreq: the
\* number of requests started; created: the (user, catalog id, type) triples for
\* which an add has inserted a row; history: the e-mails a verifyOTP has verified
\* and the reset tokens a resetPassword has spent (created and history record
\* the past only and are never read by a handler)
VARIABLES media, nextMediaId, episodes, users, now, req, nreq, created, history

vars == <<media, nextMediaId, episodes, users, now, req, nreq, created, history>>

\* ------------------------------------------------------------ documents
NoHistory ==
    [verified |-> {}, spent |-> {}, unsentOtp |-> {}, unsentReset |-> {}, issued |-> {}]

NoDoc == [id |-> 0]
NoRes == <<>>
NoEp == <<>>
\* let tmdbDetails: any = {}
NoDetails == <<>>

IdleReq ==
    [op |-> "idle", pc |-> "idle", user |-> "none", tmdbId |-> 0,
     title |-> FALSE, type |-> "none", mediaId |-> 0, epId |-> NoEp,
     season |-> 0, watchStatus |-> "none", rating |-> Undef,
     doc |-> NoDoc, dirty |-> {}, n |-> 0, i |-> 0,
     watchTimeMinutes |-> 0, watched |-> 0, total |-> 0, code |-> 0,
     email |-> "none", password |-> "none", otp |-> NoOtp, token |-> 0,
     page |-> 0, limit |-> 0, res |-> NoRes, error |-> "none", escaped |-> FALSE,
     details |-> NoDetails]

NewMedia(id, u, tmdbId, type, wtm) ==
    [id |-> id, addedBy |-> u, tmdbId |-> tmdbId, type |-> type,
     watchStatus |-> "planned", rating |-> Undef, watchTimeMinutes |-> wtm]

EpId(e) == <<e.addedBy, e.tmdbId, e.seasonNumber, e.episodeNumber>>

EpisodeIds(U) == U \X TmdbIds \X Seasons \X (1 .. MaxEpisodes)

\* (a filter without the type)
MediaMatchingAnyType(u, tmdbId, type) ==
    {m \in media : m.addedBy = u /\ m.tmdbId = tmdbId}

\* (a filter that only ever looks at movie rows)
MediaMatchingMovieOnly(u, tmdbId, type) ==
    {m \in media : m.addedBy = u /\ m.tmdbId = tmdbId /\ m.type = type
                      /\ type = "movie"}

\* Media.findOne({tmdbId, addedBy, type}): the rows the filter matches
MediaMatching(u, tmdbId, type) ==
    {m \in media : m.addedBy = u /\ m.tmdbId = tmdbId /\ m.type = type}

\* (a save that writes the whole in-memory document back)
SaveWhole(row, doc, dirty) == doc

\* doc.save() on a loaded document: $set of the modified paths
SaveDirty(row, doc, dirty) ==
    [f \in DOMAIN row |-> IF f \in dirty THEN doc[f] ELSE row[f]]

Respond(s, c) == [req EXCEPT ![s].pc = "done", ![s].code = c]

Idle(s) == req[s].pc = "idle"
CanStart(s) == Idle(s) /\ nreq < MaxRequests

\* ids are never reused: the model stops creating rows after MaxMediaId of them
Creating == {s \in Slots : req[s].pc \in {"tmdb", "save"}
                             /\ req[s].op \in {"addToWatchlist", "addTVShowToWatchlist"}}
CanCreate == nextMediaId + Cardinality(Creating) <= MaxMediaId

\* ------------------------------------------------------------ addToWatchlist
addToWatchlist(s, u, tmdbId, title, type) ==
    /\ CanStart(s) /\ CanCreate
    /\ nreq' = nreq + 1
    /\ LET r == [IdleReq EXCEPT !.op = "addToWatchlist", !.user = u,
                                !.tmdbId = tmdbId, !.title = title, !.type = type]
       IN  req' = [req EXCEPT ![s] =
                IF tmdbId = 0 \/ ~title
                THEN [r EXCEPT !.pc = "done", !.code = 400]
                ELSE IF MediaMatching(u, tmdbId, type) # {}
                THEN [r EXCEPT !.pc = "done", !.code = 400]
                ELSE [r EXCEPT !.pc = "tmdb"]]
    /\ UNCHANGED <<media, nextMediaId, episodes, users, now, created, history>>

\* (a catalog call without the try block: its failure ends the request with 500)
addToWatchlist_tmdbUncaught(s, details) ==
    /\ req[s].op = "addToWatchlist" /\ req[s].pc = "tmdb"
    /\ req' = IF details.ok
              THEN [req EXCEPT ![s].pc = "save", ![s].details = details,
                               ![s].watchTimeMinutes =
                                  IF req[s].type = "movie"
                                  THEN OrDefault(details.runtime, DefaultMovieRuntime)
                                  ELSE OrDefault(details.number_of_episodes, 1)
                                         * OrDefault(details.episode_run_time,
                                                     DefaultEpisodeRuntime)]
              ELSE [req EXCEPT ![s].pc = "done", ![s].details = details,
                               ![s].code = 500]
    /\ UNCHANGED <<media, nextMediaId, episodes, users, now, nreq, created, history>>

\* the catalog call; a failure is caught and replaced by the fallback
addToWatchlist_tmdb(s, details) ==
    /\ req[s].op = "addToWatchlist" /\ req[s].pc = "tmdb"
    /\ LET wtm == IF ~details.ok
                  THEN (IF req[s].type = "movie" THEN 120 ELSE 45)
                  ELSE IF req[s].type = "movie"
                  THEN OrDefault(OrDefault(details.runtime, DefaultMovieRuntime), 120)
                  ELSE OrDefault(details.number_of_episodes, 1)
                         * OrDefault(details.episode_run_time, DefaultEpisodeRuntime)
       IN req' = [req EXCEPT ![s].pc = "save", ![s].watchTimeMinutes = wtm,
                             ![s].details = details]
    /\ UNCHANGED <<media, nextMediaId, episodes, users, now, nreq, created, history>>

MediaInsert(m) == media \cup {m}

addToWatchlist_save(s) ==
    /\ req[s].op = "addToWatchlist" /\ req[s].pc = "save"
    /\ IF req[s].type \in {"movie", "tv"}
       THEN /\ media' = MediaInsert(NewMedia(nextMediaId, req[s].user, req[s].tmdbId,
                                             req[s].type, req[s].watchTimeMinutes))
            /\ nextMediaId' = nextMediaId + 1
            /\ created' = created \cup {<<req[s].user, req[s].tmdbId, req[s].type>>}
            /\ req' = Respond(s, 201)
       ELSE /\ req' = Respond(s, 500)
            /\ UNCHANGED <<media, nextMediaId, created, history>>
    /\ UNCHANGED <<episodes, users, now, nreq, history>>

\* ------------------------------------------------------------ addTVShowToWatchlist
addTVShowToWatchlist(s, u, tmdbId, title, type) ==
    /\ CanStart(s) /\ CanCreate
    /\ nreq' = nreq + 1
    /\ LET r == [IdleReq EXCEPT !.op = "addTVShowToWatchlist", !.user = u,
                                !.tmdbId = tmdbId, !.title = title, !.type = type]
       IN  req' = [req EXCEPT ![s] =
                IF tmdbId = 0 \/ ~title \/ type # "tv"
                THEN [r EXCEPT !.pc = "done", !.code = 400]
                ELSE IF MediaMatching(u, tmdbId, "tv") # {}
                THEN [r EXCEPT !.pc = "done", !.code = 400]
                ELSE [r EXCEPT !.pc = "tmdb"]]
    /\ UNCHANGED <<media, nextMediaId, episodes, users, now, created, history>>

\* getTVDetails: its answer only fills presentation fields; a failure is swallowed
addTVShowToWatchlist_tmdb(s) ==
    /\ req[s].op = "addTVShowToWatchlist" /\ req[s].pc = "tmdb"
    /\ req' = [req EXCEPT ![s].pc = "save", ![s].watchTimeMinutes = 0]
    /\ UNCHANGED <<media, nextMediaId, episodes, users, now, nreq, created, history>>

addTVShowToWatchlist_save(s) ==
    /\ req[s].op = "addTVShowToWatchlist" /\ req[s].pc = "save"
    /\ media' = MediaInsert(NewMedia(nextMediaId, req[s].user, req[s].tmdbId,
                                     "tv", req[s].watchTimeMinutes))
    /\ nextMediaId' = nextMediaId + 1
    /\ created' = created \cup {<<req[s].user, req[s].tmdbId, "tv">>}
    /\ req' = Respond(s, 201)
    /\ UNCHANGED <<episodes, users, now, nreq, history>>

\* ------------------------------------------------------------ updateWatchStatus
\* (a lower bound that is off by one)
RatingOutOfRangeFromZero(rating) == rating < 0 \/ rating > 5

RatingOutOfRange(rating) == rating < 1 \/ rating > 5

\* Media.findOne({_id: mediaId, addedBy: u})
MediaFindOwned(u, mediaId) == {m \in media : m.id = mediaId /\ m.addedBy = u}

\* the fields of a loaded document that differ from the edited copy
Modified(loaded, edited) == {f \in DOMAIN loaded : edited[f] # loaded[f]}

updateWatchStatus(s, u, mediaId, watchStatus, rating) ==
    /\ CanStart(s)
    /\ nreq' = nreq + 1
    /\ LET r == [IdleReq EXCEPT !.op = "updateWatchStatus", !.user = u,
                                !.mediaId = mediaId, !.watchStatus = watchStatus,
                                !.rating = rating]
           found == MediaFindOwned(u, mediaId)
       IN  req' = [req EXCEPT ![s] =
                IF mediaId = 0
                THEN [r EXCEPT !.pc = "done", !.code = 400]
                ELSE IF found = {}
                THEN [r EXCEPT !.pc = "done", !.code = 404]
                ELSE LET m == CHOOSE x \in found : TRUE
                         m1 == IF watchStatus \in MediaStatuses
                               THEN [m EXCEPT !.watchStatus = watchStatus] ELSE m
                     IN  IF rating # Undef /\ RatingOutOfRange(rating)
                         THEN [r EXCEPT !.pc = "done", !.code = 400]
                         ELSE LET m2 == IF rating # Undef
                                        THEN [m1 EXCEPT !.rating = rating] ELSE m1
                              IN  [r EXCEPT !.pc = "save", !.doc = m2,
                                            !.dirty = Modified(m, m2)]]
    /\ UNCHANGED <<media, nextMediaId, episodes, users, now, created, history>>

\* media.save(): the row may have been removed since it was loaded
MediaSave(doc, dirty) ==
    {IF m.id = doc.id THEN SaveDirty(m, doc, dirty) ELSE m : m \in media}

updateWatchStatus_save(s) ==
    /\ req[s].op = "updateWatchStatus" /\ req[s].pc = "save"
    /\ IF \E m \in media : m.id = req[s].doc.id
       THEN /\ media' = MediaSave(req[s].doc, req[s].dirty)
            /\ req' = Respond(s, 200)
       ELSE /\ media' = media
            /\ req' = Respond(s, 500)
    /\ UNCHANGED <<nextMediaId, episodes, users, now, nreq, created, history>>

\* ------------------------------------------------------------ removeFromWatchlist
removeFromWatchlist(s, u, mediaId) ==
    /\ CanStart(s)
    /\ nreq' = nreq + 1
    /\ LET r == [IdleReq EXCEPT !.op = "removeFromWatchlist", !.user = u,
                                !.mediaId = mediaId, !.pc = "done"]
           found == MediaFindOwned(u, mediaId)
       IN  /\ media' = media \ found
           /\ req' = [req EXCEPT ![s] =
                [r EXCEPT !.code = IF mediaId = 0 THEN 500
                                   ELSE IF found = {} THEN 404 ELSE 200]]
    /\ UNCHANGED <<nextMediaId, episodes, users, now, created, history>>

\* ------------------------------------------------------------ fetchTVShowEpisodes
\* the runtime the catalog gives for episode k of a season (0: omitted)
CatalogEpisodeRuntime(k) == IF k % 2 = 1 THEN 0 ELSE 50

\* episodesToSave[k]
EpisodeToSave(u, tmdbId, season, k) ==
    [addedBy |-> u, tmdbId |-> tmdbId, seasonNumber |-> season, episodeNumber |-> k,
     runtime |-> OrDefault(CatalogEpisodeRuntime(k), DefaultEpisodeRuntime),
     watchStatus |-> "unwatched"]

\* (an insert of the row whatever the store holds, as without the unique index)
EpisodeInsert(e) ==
    episodes \cup
    {[addedBy |-> e.addedBy, tmdbId |-> e.tmdbId, seasonNumber |-> e.seasonNumber,
      episodeNumber |-> e.episodeNumber, runtime |-> e.runtime,
      watchStatus |-> e.watchStatus, watchedAt |-> Undef, rating |-> Undef]}

\* Episode.updateOne(key, episode, {upsert: true})
EpisodeUpsert(e) ==
    IF \E x \in episodes : EpId(x) = EpId(e)
    THEN {IF EpId(x) = EpId(e)
          THEN [x EXCEPT !.runtime = e.runtime, !.watchStatus = e.watchStatus]
          ELSE x : x \in episodes}
    ELSE episodes \cup
         {[addedBy |-> e.addedBy, tmdbId |-> e.tmdbId, seasonNumber |-> e.seasonNumber,
           episodeNumber |-> e.episodeNumber, runtime |-> e.runtime,
           watchStatus |-> e.watchStatus, watchedAt |-> Undef, rating |-> Undef]}

\* getTVSeasonDetails answers with the first n episodes of the season (none when
\* the catalog does not know the season) or fails
fetchTVShowEpisodes(s, u, tmdbId, season, answer) ==
    /\ CanStart(s)
    /\ nreq' = nreq + 1
    /\ LET r == [IdleReq EXCEPT !.op = "fetchTVShowEpisodes", !.user = u,
                                !.tmdbId = tmdbId, !.season = season]
       IN  req' = [req EXCEPT ![s] =
                IF ~answer.ok THEN [r EXCEPT !.pc = "done", !.code = 500]
                ELSE IF answer.n = 0 THEN [r EXCEPT !.pc = "done", !.code = 200]
                ELSE [r EXCEPT !.pc = "upsert", !.n = answer.n, !.i = 1]]
    /\ UNCHANGED <<media, nextMediaId, episodes, users, now, created, history>>

fetchTVShowEpisodes_upsert(s) ==
    /\ req[s].op = "fetchTVShowEpisodes" /\ req[s].pc = "upsert"
    /\ episodes' = EpisodeUpsert(EpisodeToSave(req[s].user, req[s].tmdbId,
                                               req[s].season, req[s].i))
    /\ req' = IF req[s].i = req[s].n
              THEN Respond(s, 200)
              ELSE [req EXCEPT ![s].i = req[s].i + 1]
    /\ UNCHANGED <<media, nextMediaId, users, now, nreq, created, history>>

\* ------------------------------------------------------------ updateEpisodeStatus
\* (the lookup without the owner comparison)
EpisodeFindAnyOwner(u, episodeId) == {e \in episodes : EpId(e) = episodeId}

\* Episode.findById(episodeId), kept only when episode.addedBy is the caller
EpisodeFindOwned(u, episodeId) ==
    {e \in episodes : EpId(e) = episodeId /\ e.addedBy = u}

\* (watchedAt stamped on every status)
StatusAppliedAlwaysStamped(e, watchStatus, date) ==
    [e EXCEPT !.watchStatus = watchStatus, !.watchedAt = date]

\* episode.watchStatus = watchStatus and the watchedAt that goes with it
StatusApplied(e, watchStatus, date) ==
    [e EXCEPT !.watchStatus = watchStatus,
              !.watchedAt = IF watchStatus = "watched" THEN date
                            ELSE IF watchStatus = "unwatched" THEN Undef
                            ELSE e.watchedAt]

updateEpisodeStatus(s, u, episodeId, watchStatus, rating) ==
    /\ CanStart(s)
    /\ nreq' = nreq + 1
    /\ LET r == [IdleReq EXCEPT !.op = "updateEpisodeStatus", !.user = u,
                                !.epId = episodeId, !.watchStatus = watchStatus,
                                !.rating = rating]
           found == EpisodeFindOwned(u, episodeId)
       IN  req' = [req EXCEPT ![s] =
                IF watchStatus # "none" /\ watchStatus \notin EpisodeStatuses
                THEN [r EXCEPT !.pc = "done", !.code = 400]
                ELSE IF found = {}
                THEN [r EXCEPT !.pc = "done", !.code = 404]
                ELSE LET e == CHOOSE x \in found : TRUE
                         e1 == IF watchStatus = "none" THEN e
                               ELSE StatusApplied(e, watchStatus, now)
                         \* new Date() never equals the stored date
                         stamped == IF watchStatus = "watched" THEN {"watchedAt"} ELSE {}
                     IN  IF rating # Undef /\ RatingOutOfRange(rating)
                         THEN [r EXCEPT !.pc = "done", !.code = 400]
                         ELSE LET e2 == IF rating # Undef
                                        THEN [e1 EXCEPT !.rating = rating] ELSE e1
                              IN  [r EXCEPT !.pc = "save", !.doc = e2,
                                            !.tmdbId = e.tmdbId,
                                            !.dirty = Modified(e, e2) \cup stamped]]
    /\ UNCHANGED <<media, nextMediaId, episodes, users, now, created, history>>

EpisodeSave(doc, dirty) ==
    {IF EpId(e) = EpId(doc) THEN SaveDirty(e, doc, dirty) ELSE e : e \in episodes}

updateEpisodeStatus_save(s) ==
    /\ req[s].op = "updateEpisodeStatus" /\ req[s].pc = "save"
    /\ episodes' = EpisodeSave(req[s].doc, req[s].dirty)
    /\ req' = [req EXCEPT ![s].pc = "stats_episodes", ![s].doc = NoDoc, ![s].dirty = {}]
    /\ UNCHANGED <<media, nextMediaId, users, now, nreq, created, history>>

\* ------------------------------------------------------------ updateTVShowStats
\* (every watched episode counted at the default runtime)
SumRuntimeDefaultOnly(S) == 45 * Cardinality(S)

RECURSIVE SumRuntime(_)
SumRuntime(S) ==
    IF S = {} THEN 0
    ELSE LET e == CHOOSE x \in S : TRUE
         IN  OrDefault(e.runtime, 45) + SumRuntime(S \ {e})

ShowEpisodes(eps, u, tmdbId) == {e \in eps : e.addedBy = u /\ e.tmdbId = tmdbId}
WatchedEpisodes(eps) == {e \in eps : e.watchStatus = "watched"}

\* (completed tested first: a show without episodes counts as completed)
DerivedStatusCompletedFirst(watched, total) ==
    IF watched = total THEN "completed"
    ELSE IF watched = 0 THEN "planned"
    ELSE "watching"

\* the status the reconciler derives from the counts
DerivedStatus(watched, total) ==
    IF watched = 0 THEN "planned"
    ELSE IF watched = total THEN "completed"
    ELSE "watching"

\* (watch time added to what the row already holds)
StatsAccumulated(tvShow, watched, total, totalWatchTime) ==
    [tvShow EXCEPT !.watchTimeMinutes = tvShow.watchTimeMinutes + totalWatchTime,
                   !.watchStatus = DerivedStatus(watched, total)]

\* the two assignments to the loaded tvShow document
StatsApplied(tvShow, watched, total, totalWatchTime) ==
    [tvShow EXCEPT !.watchTimeMinutes = totalWatchTime,
                   !.watchStatus = DerivedStatus(watched, total)]

\* the reconciler returns: updateEpisodeStatus answers 200 (line 760); a direct
\* call just ends
Caller(s) ==
    IF req[s].op = "updateEpisodeStatus" THEN Respond(s, 200)
    ELSE [req EXCEPT ![s].pc = "done"]

\* a call updateTVShowStats(userId, tmdbId) on its own
updateTVShowStats(s, u, tmdbId) ==
    /\ CanStart(s)
    /\ nreq' = nreq + 1
    /\ req' = [req EXCEPT ![s] = [IdleReq EXCEPT !.op = "updateTVShowStats", !.user = u,
                                                 !.tmdbId = tmdbId,
                                                 !.pc = "stats_episodes"]]
    /\ UNCHANGED <<media, nextMediaId, episodes, users, now, created, history>>

\* Episode.find({addedBy, tmdbId}) and the sums over it
updateTVShowStats_episodes(s) ==
    /\ req[s].pc = "stats_episodes"
    /\ LET eps == ShowEpisodes(episodes, req[s].user, req[s].tmdbId)
       IN  req' = [req EXCEPT ![s].pc = "stats_media",
                              ![s].watched = Cardinality(WatchedEpisodes(eps)),
                              ![s].watchTimeMinutes = SumRuntime(WatchedEpisodes(eps)),
                              ![s].total = Cardinality(eps)]
    /\ UNCHANGED <<media, nextMediaId, episodes, users, now, nreq, created, history>>

\* Media.findOne({addedBy, tmdbId, type: "tv"}) and the assignments to it
updateTVShowStats_media(s) ==
    /\ req[s].pc = "stats_media"
    /\ LET found == MediaMatching(req[s].user, req[s].tmdbId, "tv")
       IN  IF found = {}
           THEN req' = Caller(s)
           ELSE \E tvShow \in found :
                  LET t == StatsApplied(tvShow, req[s].watched, req[s].total,
                                        req[s].watchTimeMinutes)
                  IN  req' = [req EXCEPT ![s].pc = "stats_save", ![s].doc = t,
                                         ![s].dirty = Modified(tvShow, t)]
    /\ UNCHANGED <<media, nextMediaId, episodes, users, now, nreq, created, history>>

\* tvShow.save(); an error is caught and logged, the request still answers 200
updateTVShowStats_save(s) ==
    /\ req[s].pc = "stats_save"
    /\ media' = MediaSave(req[s].doc, req[s].dirty)
    /\ req' = Caller(s)
    /\ UNCHANGED <<nextMediaId, episodes, users, now, nreq, created, history>>

\* (a reconciler whose error reaches the handler's catch block)
updateTVShowStats_rethrow(s) ==
    /\ req[s].pc \in {"stats_episodes", "stats_media", "stats_save"}
    /\ req' = [req EXCEPT ![s].pc = "done", ![s].error = "reconciler",
                          ![s].code = IF req[s].op = "updateEpisodeStatus" THEN 500
                                      ELSE req[s].code]
    /\ UNCHANGED <<media, nextMediaId, episodes, users, now, nreq, created, history>>

\* Episode.find, Media.findOne or tvShow.save rejects: the catch block logs the
\* error and updateTVShowStats returns normally
updateTVShowStats_catch(s) ==
    /\ req[s].pc \in {"stats_episodes", "stats_media", "stats_save"}
    /\ req' = [Caller(s) EXCEPT ![s].error = "reconciler"]
    /\ UNCHANGED <<media, nextMediaId, episodes, users, now, nreq, created, history>>

\* ------------------------------------------------------------ accounts
\* bcrypt.hash(password, 10)
Hash(password) == <<"bcrypt", password>>

NewUser(email, hashed, otp, otpExpires) ==
    [email |-> email, password |-> hashed, approved |-> "APPROVED",
     otp |-> otp, otpExpires |-> otpExpires, isEmailVerified |-> FALSE,
     resetPasswordToken |-> NoToken, resetPasswordExpires |-> Undef]

\* User.findOne({ email })
UserByEmail(email) == {usr \in users : usr.email = email}

\* POST /auth/register up to its first store call
register(s, complete, email, password) ==
    /\ CanStart(s)
    /\ nreq' = nreq + 1
    /\ LET r == [req EXCEPT ![s].op = "register", ![s].email = email,
                            ![s].password = password]
       IN  req' = IF ~complete \/ UserByEmail(email) # {}
                  THEN [r EXCEPT ![s].pc = "done", ![s].code = 400]
                  ELSE [r EXCEPT ![s].pc = "hash"]
    /\ UNCHANGED <<media, nextMediaId, episodes, users, now, created, history>>

\* the hash resolves; the code is drawn and its expiry taken from the clock
register_hash(s, otp) ==
    /\ req[s].op = "register" /\ req[s].pc = "hash"
    /\ req' = [req EXCEPT ![s].pc = "save",
                          ![s].otp = otp,
                          ![s].doc = NewUser(req[s].email, Hash(req[s].password),
                                             otp, now + OtpTtl)]
    /\ UNCHANGED <<media, nextMediaId, episodes, users, now, nreq, created, history>>

\* newUser.save(): the e-mail index is unique
register_save(s) ==
    /\ req[s].op = "register" /\ req[s].pc = "save"
    /\ IF UserByEmail(req[s].email) # {}
       THEN /\ req' = Respond(s, 500)
            /\ UNCHANGED users
       ELSE /\ users' = users \cup {req[s].doc}
            /\ req' = [req EXCEPT ![s].pc = "mail"]
    /\ UNCHANGED <<media, nextMediaId, episodes, now, nreq, created, history>>

\* (a catch block that takes the new account back)
register_catchRollback(s) ==
    /\ req' = Respond(s, 500)
    /\ users' = users \ {req[s].doc}

\* the catch block of register
register_catch(s) ==
    /\ req' = Respond(s, 500)
    /\ UNCHANGED users

\* sendOTPEmail resolves or throws
register_mail(s, sent) ==
    /\ req[s].op = "register" /\ req[s].pc = "mail"
    /\ IF sent
       THEN /\ req' = Respond(s, 201)
            /\ UNCHANGED <<users, history>>
       ELSE /\ register_catch(s)
            /\ history' = [history EXCEPT !.unsentOtp = @ \cup {req[s].email}]
    /\ UNCHANGED <<media, nextMediaId, episodes, now, nreq, created>>

\* (a code that is already dead at its expiry instant)
OtpExpiredAtExpiry(usr, t) == usr.otpExpires # Undef /\ t >= usr.otpExpires

\* user.otpExpires && new Date() > user.otpExpires
OtpExpired(usr, t) == usr.otpExpires # Undef /\ t > usr.otpExpires

\* POST /auth/verify-otp up to its save
verifyOTP(s, email, otp) ==
    /\ CanStart(s)
    /\ nreq' = nreq + 1
    /\ LET r == [req EXCEPT ![s].op = "verifyOTP", ![s].email = email, ![s].otp = otp]
       IN  IF UserByEmail(email) = {}
           THEN req' = [r EXCEPT ![s].pc = "done", ![s].code = 404]
           ELSE \E usr \in UserByEmail(email) :
                  IF usr.otp # otp \/ OtpExpired(usr, now)
                  THEN req' = [r EXCEPT ![s].pc = "done", ![s].code = 400]
                  ELSE LET v == [usr EXCEPT !.isEmailVerified = TRUE,
                                            !.otp = NoOtp, !.otpExpires = Undef]
                       IN  req' = [r EXCEPT ![s].pc = "save", ![s].doc = v,
                                            ![s].dirty = Modified(usr, v)]
    /\ UNCHANGED <<media, nextMediaId, episodes, users, now, created, history>>

verifyOTP_save(s) ==
    /\ req[s].op = "verifyOTP" /\ req[s].pc = "save"
    /\ users' = {IF usr.email = req[s].email
                 THEN SaveDirty(usr, req[s].doc, req[s].dirty) ELSE usr : usr \in users}
    /\ req' = Respond(s, 200)
    /\ history' = [history EXCEPT !.verified = @ \cup {req[s].email}]
    /\ UNCHANGED <<media, nextMediaId, episodes, now, nreq, created>>

\* a minute passes
Tick ==
    /\ now < MaxTime
    /\ now' = now + 1
    /\ UNCHANGED <<media, nextMediaId, episodes, users, req, nreq, created, history>>

\* (an account check that lets unverified accounts through)
LoginBlockedNever(usr) == FALSE

\* !user.isEmailVerified
LoginBlocked(usr) == ~usr.isEmailVerified

\* POST /auth/login up to the password comparison
login(s, email, password) ==
    /\ CanStart(s)
    /\ nreq' = nreq + 1
    /\ LET r == [req EXCEPT ![s].op = "login", ![s].email = email,
                            ![s].password = password]
       IN  IF UserByEmail(email) = {}
           THEN req' = [r EXCEPT ![s].pc = "done", ![s].code = 401]
           ELSE \E usr \in UserByEmail(email) :
                  req' = IF LoginBlocked(usr)
                         THEN [r EXCEPT ![s].pc = "done", ![s].code = 403]
                         ELSE [r EXCEPT ![s].pc = "compare", ![s].doc = usr]
    /\ UNCHANGED <<media, nextMediaId, episodes, users, now, created, history>>

\* bcrypt.compare resolves (it throws on a body without a password); the
\* approval test; the tokens are signed and sent with the 200
login_compare(s) ==
    /\ req[s].op = "login" /\ req[s].pc = "compare"
    /\ req' = Respond(s, IF req[s].password = "" THEN 500
                         ELSE IF Hash(req[s].password) # req[s].doc.password THEN 401
                         ELSE IF req[s].doc.approved # "APPROVED" THEN 403
                         ELSE 200)
    /\ UNCHANGED <<media, nextMediaId, episodes, users, now, nreq, created, history>>

\* crypto.createHash("sha256").update(token).digest("hex")
Sha256(token) == <<"sha256", token>>

\* POST /password/request up to its save; the expiry is taken from the clock
requestPasswordReset(s, email) ==
    /\ CanStart(s)
    /\ nreq' = nreq + 1
    /\ LET r == [req EXCEPT ![s].op = "requestPasswordReset", ![s].email = email]
       IN  IF email = ""
           THEN req' = [r EXCEPT ![s].pc = "done", ![s].code = 400]
           ELSE IF UserByEmail(email) = {}
           THEN req' = [r EXCEPT ![s].pc = "done", ![s].code = 200]
           ELSE \E usr \in UserByEmail(email) :
                  LET resetToken == nreq'
                      v == [usr EXCEPT !.resetPasswordToken = Sha256(resetToken),
                                       !.resetPasswordExpires = now + ResetTtl]
                  IN  req' = [r EXCEPT ![s].pc = "save", ![s].token = resetToken,
                                       ![s].doc = v, ![s].dirty = Modified(usr, v)]
    /\ UNCHANGED <<media, nextMediaId, episodes, users, now, created, history>>

\* user.save()
UserSave(doc, dirty) ==
    {IF usr.email = doc.email THEN SaveDirty(usr, doc, dirty) ELSE usr : usr \in users}

requestPasswordReset_save(s) ==
    /\ req[s].op = "requestPasswordReset" /\ req[s].pc = "save"
    /\ users' = UserSave(req[s].doc, req[s].dirty)
    /\ req' = [req EXCEPT ![s].pc = "mail"]
    /\ history' = [history EXCEPT !.issued = @ \cup {req[s].token}]
    /\ UNCHANGED <<media, nextMediaId, episodes, now, nreq, created>>

\* sendPasswordResetEmail resolves or throws
requestPasswordReset_mail(s, sent) ==
    /\ req[s].op = "requestPasswordReset" /\ req[s].pc = "mail"
    /\ req' = Respond(s, IF sent THEN 200 ELSE 500)
    /\ history' = IF sent THEN history
                  ELSE [history EXCEPT !.unsentReset = @ \cup {req[s].token}]
    /\ UNCHANGED <<media, nextMediaId, episodes, users, now, nreq, created>>

\* (a filter without the token)
ResetTokenMatchingAnyToken(hashedToken, t) ==
    {usr \in users : /\ usr.resetPasswordExpires # Undef
                     /\ usr.resetPasswordExpires > t}

\* (a filter that still matches at the expiry instant)
ResetTokenMatchingAtExpiry(hashedToken, t) ==
    {usr \in users : /\ usr.resetPasswordToken = hashedToken
                     /\ usr.resetPasswordExpires # Undef
                     /\ usr.resetPasswordExpires >= t}

\* User.findOne({resetPasswordToken: hashedToken, resetPasswordExpires: {$gt: new Date()}})
ResetTokenMatching(hashedToken, t) ==
    {usr \in users : /\ usr.resetPasswordToken = hashedToken
                     /\ usr.resetPasswordExpires # Undef
                     /\ usr.resetPasswordExpires > t}

\* GET /password/verify/:token
verifyResetToken(s, token) ==
    /\ CanStart(s)
    /\ nreq' = nreq + 1
    /\ LET r == [req EXCEPT ![s].op = "verifyResetToken", ![s].token = token]
       IN  req' = [r EXCEPT ![s].pc = "done",
                            ![s].code = IF ResetTokenMatching(Sha256(token), now) = {}
                                        THEN 400 ELSE 200]
    /\ UNCHANGED <<media, nextMediaId, episodes, users, now, created, history>>

\* POST /password/reset/:token up to the hashing of the new password
resetPassword(s, token, password) ==
    /\ CanStart(s)
    /\ nreq' = nreq + 1
    /\ LET r == [req EXCEPT ![s].op = "resetPassword", ![s].token = token,
                            ![s].password = password]
       IN  IF password = "" \/ Len(password) < MinPasswordLength
              \/ ResetTokenMatching(Sha256(token), now) = {}
           THEN req' = [r EXCEPT ![s].pc = "done", ![s].code = 400]
           ELSE \E usr \in ResetTokenMatching(Sha256(token), now) :
                  req' = [r EXCEPT ![s].pc = "hash", ![s].doc = usr]
    /\ UNCHANGED <<media, nextMediaId, episodes, users, now, created, history>>

\* (a reset that leaves the token in place)
PasswordResetKeepingToken(usr, hashedPassword) ==
    [usr EXCEPT !.password = hashedPassword]

\* the three assignments to the loaded user
PasswordReset(usr, hashedPassword) ==
    [usr EXCEPT !.password = hashedPassword,
                !.resetPasswordToken = NoToken,
                !.resetPasswordExpires = Undef]

\* bcrypt.hash resolves
resetPassword_hash(s) ==
    /\ req[s].op = "resetPassword" /\ req[s].pc = "hash"
    /\ LET v == PasswordReset(req[s].doc, Hash(req[s].password))
       IN  req' = [req EXCEPT ![s].pc = "save", ![s].doc = v,
                              ![s].dirty = Modified(req[s].doc, v)]
    /\ UNCHANGED <<media, nextMediaId, episodes, users, now, nreq, created, history>>

resetPassword_save(s) ==
    /\ req[s].op = "resetPassword" /\ req[s].pc = "save"
    /\ users' = UserSave(req[s].doc, req[s].dirty)
    /\ req' = Respond(s, 200)
    /\ history' = [history EXCEPT !.spent = @ \cup {req[s].token}]
    /\ UNCHANGED <<media, nextMediaId, episodes, now, nreq, created>>

\* d minutes pass
Elapse(d) ==
    /\ now + d <= MaxResetTime
    /\ now' = now + d
    /\ UNCHANGED <<media, nextMediaId, episodes, users, req, nreq, created, history>>

\* ------------------------------------------------------------ reads
\* the account of a caller (req.user.sub names a User row)
Account(u) == IF u = "A" THEN "a@x.io" ELSE "b@x.io"

\* an awaited call rejects and the handler's catch block answers c
Fail(s, kind, c) ==
    [req EXCEPT ![s].pc = "done", ![s].code = c, ![s].error = kind]

\* (a filter without the owner)
MediaOfAnyOwner(u) == media

\* the filter { addedBy: req.user.sub }
MediaOwnedBy(u) == {m \in media : m.addedBy = u}

\* getWatchlist's filter: the owner, and the status when it is one of the three
WatchlistFilter(u, status) ==
    IF status \in MediaStatuses
    THEN {m \in MediaOwnedBy(u) : m.watchStatus = status}
    ELSE MediaOwnedBy(u)

\* .sort({ createdAt: -1 }).skip(skip).limit(limit); ids grow with creation
PageOf(rows, page, limit) ==
    LET skip == (page - 1) * limit
        before(m) == Cardinality({x \in rows : x.id > m.id})
    IN  {m \in rows : before(m) >= skip /\ before(m) < skip + limit}

\* $group: { total: { $sum: "$watchTimeMinutes" } }
RECURSIVE SumWatchTime(_)
SumWatchTime(rows) ==
    IF rows = {} THEN 0
    ELSE LET m == CHOOSE x \in rows : TRUE
         IN  m.watchTimeMinutes + SumWatchTime(rows \ {m})

\* GET /watchlist: Media.find resolves
getWatchlist(s, u, page, limit, status, ok) ==
    /\ CanStart(s)
    /\ nreq' = nreq + 1
    /\ LET r == [req EXCEPT ![s].op = "getWatchlist", ![s].user = u,
                            ![s].page = page, ![s].limit = limit,
                            ![s].watchStatus = status]
       IN  req' = IF ~ok THEN [r EXCEPT ![s].pc = "done", ![s].code = 500,
                                        ![s].error = "store"]
                  ELSE [r EXCEPT ![s].pc = "count",
                                 ![s].res = [data |-> PageOf(WatchlistFilter(u, status),
                                                             page, limit)]]
    /\ UNCHANGED <<media, nextMediaId, episodes, users, now, created, history>>

\* Media.countDocuments resolves
getWatchlist_count(s, ok) ==
    /\ req[s].op = "getWatchlist" /\ req[s].pc = "count"
    /\ req' = IF ~ok THEN Fail(s, "store", 500)
              ELSE [req EXCEPT ![s].pc = "aggregate",
                               ![s].total = Cardinality(WatchlistFilter(req[s].user,
                                                                        req[s].watchStatus))]
    /\ UNCHANGED <<media, nextMediaId, episodes, users, now, nreq, created, history>>

\* Media.aggregate resolves; the response
getWatchlist_aggregate(s, ok) ==
    /\ req[s].op = "getWatchlist" /\ req[s].pc = "aggregate"
    /\ req' = IF ~ok THEN Fail(s, "store", 500)
              ELSE [req EXCEPT ![s].pc = "done", ![s].code = 200,
                       ![s].res = [data |-> req[s].res.data,
                                   totalItems |-> req[s].total,
                                   totalWatchTime |->
                                      SumWatchTime(WatchlistFilter(req[s].user,
                                                                   req[s].watchStatus))]]
    /\ UNCHANGED <<media, nextMediaId, episodes, users, now, nreq, created, history>>

\* (watch time summed over every row, whatever its status)
CompletedOfAll(items) == items

\* the rows of allItems whose watch time is counted
CompletedOf(items) == {m \in items : m.watchStatus = "completed"}

\* responseData, computed from totalItems and allItems
StatsResponse(totalItems, allItems) ==
    LET movies == {m \in allItems : m.type = "movie"}
        shows == {m \in allItems : m.type = "tv"}
    IN  [totalItems |-> totalItems,
         totalWatchTime |-> SumWatchTime(CompletedOf(allItems)),
         movieStats |-> [total |-> Cardinality(movies),
                         completed |-> Cardinality(CompletedOf(movies)),
                         watchTime |-> SumWatchTime(CompletedOf(movies))],
         tvStats |-> [total |-> Cardinality(shows),
                      completed |-> Cardinality(CompletedOf(shows)),
                      watchTime |-> SumWatchTime(CompletedOf(shows))],
         plannedCount |-> Cardinality({m \in allItems : m.watchStatus = "planned"}),
         watchingCount |-> Cardinality({m \in allItems : m.watchStatus = "watching"}),
         completedCount |-> Cardinality({m \in allItems : m.watchStatus = "completed"})]

\* GET /watchlist/stats: the first countDocuments resolves
getWatchlistStats(s, u, ok) ==
    /\ CanStart(s)
    /\ nreq' = nreq + 1
    /\ LET r == [req EXCEPT ![s].op = "getWatchlistStats", ![s].user = u]
       IN  req' = IF ~ok THEN [r EXCEPT ![s].pc = "done", ![s].code = 500,
                                        ![s].error = "store"]
                  ELSE [r EXCEPT ![s].pc = "counts",
                                 ![s].total = Cardinality(MediaOwnedBy(u))]
    /\ UNCHANGED <<media, nextMediaId, episodes, users, now, created, history>>

\* the three counts by status resolve (they are only logged)
getWatchlistStats_counts(s, ok) ==
    /\ req[s].op = "getWatchlistStats" /\ req[s].pc = "counts"
    /\ req' = IF ~ok THEN Fail(s, "store", 500) ELSE [req EXCEPT ![s].pc = "find"]
    /\ UNCHANGED <<media, nextMediaId, episodes, users, now, nreq, created, history>>

\* Media.find resolves; the response
getWatchlistStats_find(s, ok) ==
    /\ req[s].op = "getWatchlistStats" /\ req[s].pc = "find"
    /\ req' = IF ~ok THEN Fail(s, "store", 500)
              ELSE [req EXCEPT ![s].pc = "done", ![s].code = 200,
                       ![s].res = StatsResponse(req[s].total, MediaOwnedBy(req[s].user))]
    /\ UNCHANGED <<media, nextMediaId, episodes, users, now, nreq, created, history>>

\* (a read that stores the season it found missing)
getTVShowEpisodesPopulating(s, u, tmdbId, season, ok) ==
    /\ CanStart(s)
    /\ nreq' = nreq + 1
    /\ req' = [req EXCEPT ![s].op = "getTVShowEpisodes", ![s].user = u,
                          ![s].tmdbId = tmdbId, ![s].season = season,
                          ![s].pc = "done", ![s].code = 200]
    /\ episodes' = EpisodeUpsert(EpisodeToSave(u, tmdbId, 1, 1))
    /\ UNCHANGED <<media, nextMediaId, users, now, created, history>>

\* GET /tv/:tmdbId/episodes (season 0: no season in the query): Episode.find
\* resolves
getTVShowEpisodes(s, u, tmdbId, season, ok) ==
    /\ CanStart(s)
    /\ nreq' = nreq + 1
    /\ LET r == [req EXCEPT ![s].op = "getTVShowEpisodes", ![s].user = u,
                            ![s].tmdbId = tmdbId, ![s].season = season]
           found == {e \in episodes : /\ e.addedBy = u /\ e.tmdbId = tmdbId
                                      /\ (season # 0 => e.seasonNumber = season)}
       IN  req' = IF tmdbId = 0
                  THEN [r EXCEPT ![s].pc = "done", ![s].code = 400]
                  ELSE IF ~ok
                  THEN [r EXCEPT ![s].pc = "done", ![s].code = 500, ![s].error = "store"]
                  ELSE IF found = {} /\ season = 0
                  THEN [r EXCEPT ![s].pc = "tmdb"]
                  ELSE [r EXCEPT ![s].pc = "done", ![s].code = 200,
                           ![s].res = [totalEpisodes |-> Cardinality(found),
                                       watchedEpisodes |->
                                          Cardinality(WatchedEpisodes(found))]]
    /\ UNCHANGED <<media, nextMediaId, episodes, users, now, created, history>>

\* getTVDetails resolves (the seasons are sent) or throws (the empty grouping is
\* sent): 200 either way
getTVShowEpisodes_tmdb(s, ok) ==
    /\ req[s].op = "getTVShowEpisodes" /\ req[s].pc = "tmdb"
    /\ req' = [req EXCEPT ![s].pc = "done", ![s].code = 200,
                          ![s].error = IF ok THEN "none" ELSE "catalog",
                          ![s].res = [totalEpisodes |-> 0, watchedEpisodes |-> 0]]
    /\ UNCHANGED <<media, nextMediaId, episodes, users, now, nreq, created, history>>

\* GET /report: User.findById resolves
generateMediaReport(s, u, ok) ==
    /\ CanStart(s)
    /\ nreq' = nreq + 1
    /\ LET r == [req EXCEPT ![s].op = "generateMediaReport", ![s].user = u]
       IN  req' = IF ~ok
                  THEN [r EXCEPT ![s].pc = "done", ![s].code = 500, ![s].error = "store"]
                  ELSE IF UserByEmail(Account(u)) = {}
                  THEN [r EXCEPT ![s].pc = "done", ![s].code = 404]
                  ELSE [r EXCEPT ![s].pc = "media"]
    /\ UNCHANGED <<media, nextMediaId, episodes, users, now, created, history>>

\* Media.find resolves
generateMediaReport_media(s, ok) ==
    /\ req[s].op = "generateMediaReport" /\ req[s].pc = "media"
    /\ req' = IF ~ok THEN Fail(s, "store", 500) ELSE [req EXCEPT ![s].pc = "episodes"]
    /\ UNCHANGED <<media, nextMediaId, episodes, users, now, nreq, created, history>>

\* Episode.find resolves; the headers are set and the document is piped
generateMediaReport_episodes(s, ok) ==
    /\ req[s].op = "generateMediaReport" /\ req[s].pc = "episodes"
    /\ req' = IF ~ok THEN Fail(s, "store", 500) ELSE [req EXCEPT ![s].pc = "pdf"]
    /\ UNCHANGED <<media, nextMediaId, episodes, users, now, nreq, created, history>>

\* generatePDFContent resolves and the document ends (200), or it throws.  When
\* it throws before anything was written (headersSent false) the catch block
\* answers 500; when part of the document has gone out, the response has
\* status 200, res.status(500).json throws in the catch block and the error
\* leaves the handler
generateMediaReport_pdf(s, ok, headersSent) ==
    /\ req[s].op = "generateMediaReport" /\ req[s].pc = "pdf"
    /\ req' = IF ok THEN Respond(s, 200)
              ELSE IF ~headersSent THEN Fail(s, "pdf", 500)
              ELSE [req EXCEPT ![s].pc = "done", ![s].code = 200,
                               ![s].error = "pdf", ![s].escaped = TRUE]
    /\ UNCHANGED <<media, nextMediaId, episodes, users, now, nreq, created, history>>

\* POST /auth/refresh: jwt.verify, then User.findById resolves or rejects; the
\* catch block answers 403 whatever was thrown
handleRefreshToken(s, token, lookup) ==
    /\ CanStart(s)
    /\ nreq' = nreq + 1
    /\ LET r == [req EXCEPT ![s].op = "handleRefreshToken", ![s].user = token]
       IN  req' = IF token = "none"
                  THEN [r EXCEPT ![s].pc = "done", ![s].code = 400]
                  ELSE IF token = "bad"
                  THEN [r EXCEPT ![s].pc = "done", ![s].code = 403, ![s].error = "jwt"]
                  ELSE IF ~lookup
                  THEN [r EXCEPT ![s].pc = "done", ![s].code = 403, ![s].error = "store"]
                  ELSE IF UserByEmail(Account(token)) = {}
                  THEN [r EXCEPT ![s].pc = "done", ![s].code = 403]
                  ELSE [r EXCEPT ![s].pc = "done", ![s].code = 200]
    /\ UNCHANGED <<media, nextMediaId, episodes, users, now, created, history>>

Return(s) ==
    /\ req[s].pc = "done"
    /\ req' = [req EXCEPT ![s] = IdleReq]
    /\ UNCHANGED <<media, nextMediaId, episodes, users, now, nreq, created, history>>

\* ------------------------------------------------------------ specification
Init ==
    /\ media = {}
    /\ nextMediaId = 1
    /\ episodes = {}
    /\ users = {}
    /\ now = 0
    /\ req = [s \in Slots |-> IdleReq]
    /\ nreq = 0
    /\ created = {}
    /\ history = NoHistory

\* the handlers, run in the slots S on the inputs P
AddHandlers(S, P) ==
    \/ \E s \in S, u \in P.users, tmdbId \in P.tmdbIds, title \in P.titles,
          type \in P.types : addToWatchlist(s, u, tmdbId, title, type)
    \/ \E s \in S, details \in P.details : addToWatchlist_tmdb(s, details)
    \/ \E s \in S : addToWatchlist_save(s)
    \/ \E s \in S, u \in P.users, tmdbId \in P.tmdbIds, title \in P.titles,
          type \in P.types : addTVShowToWatchlist(s, u, tmdbId, title, type)
    \/ \E s \in S : addTVShowToWatchlist_tmdb(s)
    \/ \E s \in S : addTVShowToWatchlist_save(s)

WatchlistHandlers(S, P) ==
    \/ \E s \in S, u \in P.users, mediaId \in P.mediaIds,
          watchStatus \in P.mediaStatuses, rating \in P.ratings :
          updateWatchStatus(s, u, mediaId, watchStatus, rating)
    \/ \E s \in S : updateWatchStatus_save(s)
    \/ \E s \in S, u \in P.users, mediaId \in P.mediaIds :
          removeFromWatchlist(s, u, mediaId)

ReconcilerSteps(S) ==
    \/ \E s \in S : updateTVShowStats_episodes(s)
    \/ \E s \in S : updateTVShowStats_media(s)
    \/ \E s \in S : updateTVShowStats_save(s)

EpisodeHandlers(S, P) ==
    \/ \E s \in S, u \in P.users, tmdbId \in TmdbIds, season \in Seasons,
          answer \in P.seasons : fetchTVShowEpisodes(s, u, tmdbId, season, answer)
    \/ \E s \in S : fetchTVShowEpisodes_upsert(s)
    \/ \E s \in S, u \in P.users, episodeId \in P.episodeIds,
          watchStatus \in P.episodeStatuses, rating \in P.ratings :
          updateEpisodeStatus(s, u, episodeId, watchStatus, rating)
    \/ \E s \in S : updateEpisodeStatus_save(s)
    \/ ReconcilerSteps(S)

RegisterHandlers(S, P) ==
    \/ \E s \in S, complete \in P.complete, email \in P.emails,
          password \in Passwords : register(s, complete, email, password)
    \/ \E s \in S, otp \in P.issued : register_hash(s, otp)
    \/ \E s \in S : register_save(s)
    \/ \E s \in S, sent \in P.sent : register_mail(s, sent)

LoginHandlers(S, P) ==
    \/ \E s \in S, email \in P.emails, password \in P.passwords :
          login(s, email, password)
    \/ \E s \in S : login_compare(s)

ResetHandlers(S, P) ==
    \/ \E s \in S, email \in P.resetEmails : requestPasswordReset(s, email)
    \/ \E s \in S : requestPasswordReset_save(s)
    \/ \E s \in S, sent \in P.sent : requestPasswordReset_mail(s, sent)
    \/ \E s \in S, token \in P.tokens : verifyResetToken(s, token)
    \/ \E s \in S, token \in P.tokens, password \in P.newPasswords :
          resetPassword(s, token, password)
    \/ \E s \in S : resetPassword_hash(s)
    \/ \E s \in S : resetPassword_save(s)

AuthHandlers(S, P) ==
    \/ RegisterHandlers(S, P)
    \/ \E s \in S, email \in P.emails, otp \in P.otps : verifyOTP(s, email, otp)
    \/ \E s \in S : verifyOTP_save(s)

ReadHandlers(S, P) ==
    \/ \E s \in S, u \in P.users, page \in P.pages, limit \in P.limits,
          status \in P.filters, ok \in P.storeOk :
          getWatchlist(s, u, page, limit, status, ok)
    \/ \E s \in S, ok \in P.storeOk : getWatchlist_count(s, ok)
    \/ \E s \in S, ok \in P.storeOk : getWatchlist_aggregate(s, ok)
    \/ \E s \in S, u \in P.users, ok \in P.storeOk : getWatchlistStats(s, u, ok)
    \/ \E s \in S, ok \in P.storeOk : getWatchlistStats_counts(s, ok)
    \/ \E s \in S, ok \in P.storeOk : getWatchlistStats_find(s, ok)
    \/ \E s \in S, u \in P.users, tmdbId \in P.tmdbIds, season \in {0, 1},
          ok \in P.storeOk : getTVShowEpisodes(s, u, tmdbId, season, ok)
    \/ \E s \in S, ok \in BOOLEAN : getTVShowEpisodes_tmdb(s, ok)
    \/ \E s \in S, u \in P.users, ok \in P.storeOk : generateMediaReport(s, u, ok)
    \/ \E s \in S, ok \in P.storeOk : generateMediaReport_media(s, ok)
    \/ \E s \in S, ok \in P.storeOk : generateMediaReport_episodes(s, ok)
    \/ \E s \in S, ok \in BOOLEAN, headersSent \in BOOLEAN :
          generateMediaReport_pdf(s, ok, headersSent)

Returns(S) == \E s \in S : Return(s)

\* Spec: one user, one request at a time, every body value except ratings
Inputs ==
    [users |-> {"A"}, tmdbIds |-> BodyTmdbIds, titles |-> BOOLEAN, types |-> BodyTypes,
     mediaIds |-> MediaIds, mediaStatuses |-> BodyMediaStatuses,
     episodeIds |-> EpisodeIds({"A"}), episodeStatuses |-> BodyEpisodeStatuses,
     ratings |-> {Undef},
     details |-> Details(BOOLEAN, {0}, {2}, {0}),
     seasons |-> SeasonAnswers(BOOLEAN, 0 .. MaxEpisodes)]

Next ==
    \/ AddHandlers({1}, Inputs)
    \/ WatchlistHandlers({1}, Inputs)
    \/ EpisodeHandlers({1}, Inputs)
    \/ Returns({1})

Spec == Init /\ [][Next]_vars

\* SpecUsers: two users, one request at a time, well-formed adds; the only rating
\* sent is out of range
InputsUsers ==
    [users |-> Users, tmdbIds |-> TmdbIds, titles |-> {TRUE}, types |-> {"movie", "tv"},
     mediaIds |-> MediaIds, mediaStatuses |-> {"none", "completed"},
     episodeIds |-> EpisodeIds(Users), episodeStatuses |-> {"none", "watched", "bogus"},
     ratings |-> {Undef, 6},
     details |-> Details({TRUE}, {0}, {2}, {0}),
     seasons |-> SeasonAnswers({TRUE}, 1 .. MaxEpisodes)]

NextUsers ==
    \/ AddHandlers({1}, InputsUsers)
    \/ WatchlistHandlers({1}, InputsUsers)
    \/ EpisodeHandlers({1}, InputsUsers)
    \/ Returns({1})

SpecUsers == Init /\ [][NextUsers]_vars

\* SpecRatings: one user, one request at a time, every rating value
InputsRatings ==
    [users |-> {"A"}, tmdbIds |-> TmdbIds, titles |-> {TRUE}, types |-> {"movie", "tv"},
     mediaIds |-> MediaIds, mediaStatuses |-> {"none", "completed"},
     episodeIds |-> EpisodeIds({"A"}), episodeStatuses |-> {"none", "watched", "bogus"},
     ratings |-> BodyRatings,
     details |-> Details({TRUE}, {0}, {2}, {0}),
     seasons |-> SeasonAnswers({TRUE}, 1 .. MaxEpisodes)]

NextRatings ==
    \/ AddHandlers({1}, InputsRatings)
    \/ WatchlistHandlers({1}, InputsRatings)
    \/ EpisodeHandlers({1}, InputsRatings)
    \/ Returns({1})

SpecRatings == Init /\ [][NextRatings]_vars

\* SpecConc: one user, two requests in flight at once, interleaved at their awaits
InputsConc ==
    [users |-> {"A"}, tmdbIds |-> TmdbIds, titles |-> {TRUE}, types |-> {"tv"},
     episodeIds |-> EpisodeIds({"A"}), episodeStatuses |-> EpisodeStatuses,
     ratings |-> {Undef},
     details |-> Details({TRUE}, {0}, {2}, {0}),
     seasons |-> SeasonAnswers({TRUE}, {MaxEpisodes})]

NextConc ==
    \/ AddHandlers(Slots, InputsConc)
    \/ EpisodeHandlers(Slots, InputsConc)
    \/ Returns(Slots)

SpecConc == Init /\ [][NextConc]_vars

\* SpecStats: the reconciler on its own, called any number of times for (A, 1)
\* on a store holding the first n episodes of the season in any statuses and no
\* tv row or one tv row in any status
InitStats ==
    /\ \E n \in 0 .. MaxEpisodes : \E st \in [1 .. n -> EpisodeStatuses] :
          episodes = {[addedBy |-> "A", tmdbId |-> 1, seasonNumber |-> 1,
                       episodeNumber |-> k,
                       runtime |-> OrDefault(CatalogEpisodeRuntime(k),
                                             DefaultEpisodeRuntime),
                       watchStatus |-> st[k],
                       watchedAt |-> IF st[k] = "watched" THEN 0 ELSE Undef,
                       rating |-> Undef] : k \in 1 .. n}
    /\ \E rows \in {0, 1}, status \in MediaStatuses, wtm \in {0, 90} :
          /\ media = {[NewMedia(1, "A", 1, "tv", wtm) EXCEPT !.watchStatus = status] :
                         i \in 1 .. rows}
          /\ nextMediaId = 1 + rows
          /\ created = {<<"A", 1, "tv">> : i \in 1 .. rows}
    /\ history = NoHistory
    /\ users = {}
    /\ now = 0
    /\ req = [s \in Slots |-> IdleReq]
    /\ nreq = 0

NextStats ==
    \/ updateTVShowStats(1, "A", 1)
    \/ ReconcilerSteps({1})
    \/ Returns({1})

SpecStats == InitStats /\ [][NextStats]_vars

\* SpecAuth: accounts, one request at a time, with the clock running
InputsAuth ==
    [complete |-> BOOLEAN, emails |-> Emails, sent |-> BOOLEAN, issued |-> Otps,
     otps |-> Otps \cup {NoOtp}]

NextAuth ==
    \/ AuthHandlers({1}, InputsAuth)
    \/ Returns({1})
    \/ Tick

SpecAuth == Init /\ [][NextAuth]_vars

\* SpecLogin: registration, verification and login of one account, one request
\* at a time
InputsLogin ==
    [complete |-> {TRUE}, emails |-> Emails, sent |-> BOOLEAN,
     issued |-> {"111111"}, otps |-> {"111111", "222222"},
     passwords |-> {"", "pw1", "longer1"}]

NextLogin ==
    \/ AuthHandlers({1}, InputsLogin)
    \/ LoginHandlers({1}, InputsLogin)
    \/ Returns({1})

SpecLogin == Init /\ [][NextLogin]_vars

\* SpecReset: registration, the reset-token flow and login of one account, one
\* request at a time, with the clock running over more than an hour
InputsReset ==
    [complete |-> {TRUE}, emails |-> {"a@x.io"}, sent |-> BOOLEAN,
     issued |-> {"111111"}, resetEmails |-> {"", "a@x.io", "b@x.io"},
     tokens |-> ResetTokens, newPasswords |-> ResetPasswords,
     waits |-> {ResetTtl \div 2, ResetTtl - 1}]

NextReset ==
    \/ RegisterHandlers({1}, InputsReset)
    \/ ResetHandlers({1}, InputsReset)
    \/ Returns({1})
    \/ \E d \in InputsReset.waits : Elapse(d)

SpecReset == Init /\ [][NextReset]_vars

\* SpecFetch: fetchTVShowEpisodes called twice in a row for season 1 of (A, 1),
\* the second call (slot 2) with the catalog answer of the first (slot 1), on a
\* store holding the first n episodes in any statuses, rated or not
InitFetch ==
    /\ \E n \in 0 .. MaxEpisodes : \E st \in [1 .. n -> EpisodeStatuses] :
       \E rating \in {Undef, 3} :
          episodes = {[addedBy |-> "A", tmdbId |-> 1, seasonNumber |-> 1,
                       episodeNumber |-> k,
                       runtime |-> OrDefault(CatalogEpisodeRuntime(k),
                                             DefaultEpisodeRuntime),
                       watchStatus |-> st[k],
                       watchedAt |-> IF st[k] = "watched" THEN 0 ELSE Undef,
                       rating |-> rating] : k \in 1 .. n}
    /\ media = {}
    /\ nextMediaId = 1
    /\ created = {}
    /\ history = NoHistory
    /\ users = {}
    /\ now = 0
    /\ req = [s \in Slots |-> IdleReq]
    /\ nreq = 0

NextFetch ==
    \/ \E answer \in SeasonAnswers(BOOLEAN, 0 .. MaxEpisodes) :
          fetchTVShowEpisodes(1, "A", 1, 1, answer)
    \/ /\ req[1].pc = "done"
       /\ fetchTVShowEpisodes(2, "A", 1, 1, [ok |-> req[1].code = 200, n |-> req[1].n])
    \/ \E s \in Slots : fetchTVShowEpisodes_upsert(s)

SpecFetch == InitFetch /\ [][NextFetch]_vars

\* SpecReads: two users with accounts, one request at a time: adds, status
\* updates, a season fetch, and the four reads, whose store calls may fail
InitReads ==
    /\ media = {}
    /\ nextMediaId = 1
    /\ episodes = {}
    /\ users = {[NewUser(Account(u), Hash("pw1"), NoOtp, Undef)
                   EXCEPT !.isEmailVerified = TRUE] : u \in Users}
    /\ now = 0
    /\ req = [s \in Slots |-> IdleReq]
    /\ nreq = 0
    /\ created = {}
    /\ history = [NoHistory EXCEPT !.verified = {Account(u) : u \in Users}]

InputsReads ==
    [users |-> Users, tmdbIds |-> TmdbIds, titles |-> {TRUE}, types |-> {"movie", "tv"},
     mediaIds |-> 1 .. MaxMediaId, mediaStatuses |-> {"completed"},
     ratings |-> {Undef},
     details |-> Details({TRUE}, {100}, {2}, {0}),
     pages |-> {1, 2}, limits |-> {1, 20}, filters |-> {"none", "completed", "bogus"},
     storeOk |-> BOOLEAN]

NextReads ==
    \/ \E s \in {1}, u \in InputsReads.users, tmdbId \in InputsReads.tmdbIds,
          type \in InputsReads.types : addToWatchlist(s, u, tmdbId, TRUE, type)
    \/ \E details \in InputsReads.details : addToWatchlist_tmdb(1, details)
    \/ addToWatchlist_save(1)
    \/ WatchlistHandlers({1}, InputsReads)
    \/ fetchTVShowEpisodes(1, "A", 1, 1, [ok |-> TRUE, n |-> 1])
    \/ fetchTVShowEpisodes_upsert(1)
    \/ ReadHandlers({1}, InputsReads)
    \/ \E token \in {"none", "bad", "A"}, lookup \in BOOLEAN :
          handleRefreshToken(1, token, lookup)
    \/ Returns({1})

SpecReads == InitReads /\ [][NextReads]_vars

\* SpecResetConc: the reset-token flow of one verified account with two requests
\* in flight at once, starting when request 1 has issued token 1
InitResetConc ==
    /\ media = {}
    /\ nextMediaId = 1
    /\ episodes = {}
    /\ users = {[NewUser("a@x.io", Hash("pw1"), NoOtp, Undef)
                   EXCEPT !.isEmailVerified = TRUE,
                          !.resetPasswordToken = Sha256(1),
                          !.resetPasswordExpires = ResetTtl]}
    /\ now = 0
    /\ req = [s \in Slots |-> IdleReq]
    /\ nreq = 1
    /\ created = {}
    /\ history = [NoHistory EXCEPT !.verified = {"a@x.io"}, !.issued = {1}]

InputsResetConc ==
    [resetEmails |-> {"a@x.io"}, sent |-> {TRUE}, tokens |-> {1},
     newPasswords |-> {"longer1", "longer2"}]

NextResetConc ==
    \/ ResetHandlers(Slots, InputsResetConc)
    \/ Returns(Slots)

SpecResetConc == InitResetConc /\ [][NextResetConc]_vars

\* SpecAdd: adds and removals by one user, one request at a time, with a catalog
\* that answers with or without each field, or fails
InputsAdd ==
    [users |-> {"A"}, tmdbIds |-> TmdbIds, titles |-> {TRUE}, types |-> {"movie", "tv"},
     mediaIds |-> 1 .. MaxMediaId,
     details |-> Details(BOOLEAN, {0, 100}, {0, 2}, {0, 50})]

NextAdd ==
    \/ AddHandlers({1}, InputsAdd)
    \/ \E mediaId \in InputsAdd.mediaIds : removeFromWatchlist(1, "A", mediaId)
    \/ Returns({1})

SpecAdd == Init /\ [][NextAdd]_vars

\* SpecEpisodes: A's updateEpisodeStatus with its reconciler, one request at a
\* time, with the clock running and reconciler calls that may fail, on a store
\* where A holds the first n episodes of show 1, a movie row with the same tmdbId
\* and perhaps the tv row, and B holds its own tv row and episode
InitEpisodes ==
    /\ \E n \in 0 .. MaxEpisodes : \E st \in [1 .. n -> {"unwatched", "watched"}] :
          episodes = {[addedBy |-> "A", tmdbId |-> 1, seasonNumber |-> 1,
                       episodeNumber |-> k,
                       runtime |-> OrDefault(CatalogEpisodeRuntime(k),
                                             DefaultEpisodeRuntime),
                       watchStatus |-> st[k],
                       watchedAt |-> IF st[k] = "watched" THEN 0 ELSE Undef,
                       rating |-> Undef] : k \in 1 .. n}
                     \cup {[addedBy |-> "B", tmdbId |-> 1, seasonNumber |-> 1,
                            episodeNumber |-> 1, runtime |-> DefaultEpisodeRuntime,
                            watchStatus |-> "watched", watchedAt |-> 0,
                            rating |-> Undef]}
    /\ \E rows \in {0, 1}, status \in {"planned", "completed"} :
          /\ media = {[NewMedia(1, "A", 1, "tv", 90) EXCEPT !.watchStatus = status] :
                         i \in 1 .. rows}
                      \cup {[NewMedia(2, "A", 1, "movie", DefaultMovieRuntime)
                               EXCEPT !.watchStatus = "completed"],
                            [NewMedia(3, "B", 1, "tv", DefaultEpisodeRuntime)
                               EXCEPT !.watchStatus = "completed"]}
          /\ created = {<<"A", 1, "tv">> : i \in 1 .. rows}
                        \cup {<<"A", 1, "movie">>, <<"B", 1, "tv">>}
    /\ nextMediaId = 4
    /\ history = NoHistory
    /\ users = {}
    /\ now = 1
    /\ req = [s \in Slots |-> IdleReq]
    /\ nreq = 0

NextEpisodes ==
    \/ \E episodeId \in EpisodeIds({"A"}), watchStatus \in BodyEpisodeStatuses :
          updateEpisodeStatus(1, "A", episodeId, watchStatus, Undef)
    \/ updateEpisodeStatus_save(1)
    \/ ReconcilerSteps({1})
    \/ updateTVShowStats_catch(1)
    \/ Elapse(ResetTtl)
    \/ Returns({1})

SpecEpisodes == InitEpisodes /\ [][NextEpisodes]_vars

\* ====================================================================
\* Properties
\* ====================================================================
\* what the Episode rows of (u, c) say, stated without the handlers' operators
RECURSIVE RuntimeTotal(_)
RuntimeTotal(S) ==
    IF S = {} THEN 0
    ELSE LET e == CHOOSE x \in S : TRUE IN e.runtime + RuntimeTotal(S \ {e})

EpisodesOf(u, c) == {e \in episodes : e.addedBy = u /\ e.tmdbId = c}
WatchedOf(u, c) == {e \in EpisodesOf(u, c) : e.watchStatus = "watched"}

ExpectedStatus(u, c) ==
    LET N == Cardinality(EpisodesOf(u, c))
        k == Cardinality(WatchedOf(u, c))
    IN  CASE k = 0 -> "planned"
          [] 0 < k /\ k < N -> "watching"
          [] k = N /\ N > 0 -> "completed"

Reconciled(m) ==
    /\ m.watchStatus = ExpectedStatus(m.addedBy, m.tmdbId)
    /\ m.watchTimeMinutes = RuntimeTotal(WatchedOf(m.addedBy, m.tmdbId))

\* request s takes its first step in this transition
Starts(s) == req[s].pc = "idle" /\ req'[s].pc # "idle"
Rejected(s, c) == req'[s].pc = "done" /\ req'[s].code = c
StoresUnchanged == media' = media /\ episodes' = episodes

AddOps == {"addToWatchlist", "addTVShowToWatchlist"}

\* C1 (as claimed): once an add has created a row for (u, c, t), every later add
\* by u of the same (c, t), through either endpoint, is answered 400 and leaves
\* the Media store unchanged.
C1_AddAfterCreateRejected ==
    [][\A s \in Slots :
         (Starts(s) /\ req'[s].op \in AddOps
            /\ <<req'[s].user, req'[s].tmdbId, req'[s].type>> \in created)
         => (Rejected(s, 400) /\ media' = media)]_vars

\* C1 (amended): while a row for (u, c, t) is in the Media store, every add by u
\* of the same (c, t), through either endpoint, is answered 400 and leaves the
\* Media store unchanged.  (After removeFromWatchlist the same add succeeds.)
C1_AddWhileRowExistsRejected ==
    [][\A s \in Slots :
         (Starts(s) /\ req'[s].op \in AddOps
            /\ \E m \in media : /\ m.addedBy = req'[s].user
                                /\ m.tmdbId = req'[s].tmdbId
                                /\ m.type = req'[s].type)
         => (Rejected(s, 400) /\ media' = media)]_vars

\* a well-formed add answered 400 because its row is there
C1_Witness ==
    \E s \in Slots :
        /\ req[s].op = "addTVShowToWatchlist" /\ req[s].pc = "done" /\ req[s].code = 400
        /\ req[s].tmdbId # 0 /\ req[s].title /\ req[s].type = "tv"
        /\ \E m \in media : m.addedBy = req[s].user /\ m.tmdbId = req[s].tmdbId
                             /\ m.type = "tv"

C5_QuiescentRowsReconciled ==
    (\A s \in Slots : req[s].pc = "idle")
    => \A m \in media : m.type = "tv" => Reconciled(m)

\* the request names, by id, a row that belongs to another user
NamesForeignRow(s) ==
    \/ /\ req'[s].op \in {"updateWatchStatus", "removeFromWatchlist"}
       /\ \E m \in media : m.id = req'[s].mediaId /\ m.addedBy # req'[s].user
    \/ /\ req'[s].op = "updateEpisodeStatus"
       /\ \E e \in episodes : EpId(e) = req'[s].epId /\ e.addedBy # req'[s].user

\* C9 (as claimed): a request of A that names a row of B is answered 404 and
\* leaves the stores unchanged.
C9_ForeignRowAnswers404 ==
    [][\A s \in Slots :
         (Starts(s) /\ NamesForeignRow(s))
         => (Rejected(s, 404) /\ StoresUnchanged)]_vars

\* C9 (amended): such a request leaves the stores unchanged and is answered 404,
\* except that updateEpisodeStatus answers 400 when the body carries a watch
\* status outside {unwatched, watched, skipped}: that is checked before the
\* lookup, whoever owns the episode.
C9_ForeignRowNeverTouched ==
    [][\A s \in Slots :
         (Starts(s) /\ NamesForeignRow(s))
         => /\ StoresUnchanged
            /\ \/ Rejected(s, 404)
               \/ /\ req'[s].op = "updateEpisodeStatus"
                  /\ req'[s].watchStatus \notin (EpisodeStatuses \cup {"none"})
                  /\ Rejected(s, 400)]_vars

\* A marked B's episode watched: 404, and the episode is as it was
C9_Witness ==
    \E s \in Slots :
        /\ req[s].op = "updateEpisodeStatus" /\ req[s].pc = "done" /\ req[s].code = 404
        /\ req[s].watchStatus = "watched" /\ req[s].user = "A"
        /\ \E e \in episodes : EpId(e) = req[s].epId /\ e.addedBy = "B"
                                /\ e.watchStatus = "unwatched"
\* C2: the Media store never holds two rows for one (user, catalog id, type),
\* also when adds of the same user for the same item interleave at their awaits.
C2_OneRowPerItem ==
    \A m1, m2 \in media :
        (m1.addedBy = m2.addedBy /\ m1.tmdbId = m2.tmdbId /\ m1.type = m2.type)
        => m1 = m2

\* C3: when the reconciler has run for (u, c), the tv row of (u, c) says planned
\* if no episode is watched (also with no episode at all), watching if some but
\* not all are, completed if all of at least one are; skipped episodes count as
\* episodes, not as watched.
C3_ReconcilerStatus ==
    \A s \in Slots :
        (req[s].op = "updateTVShowStats" /\ req[s].pc = "done")
        => \A m \in media :
              (m.type = "tv" /\ m.addedBy = req[s].user /\ m.tmdbId = req[s].tmdbId)
              => LET N == Cardinality({e \in episodes :
                              e.addedBy = m.addedBy /\ e.tmdbId = m.tmdbId})
                     k == Cardinality({e \in episodes :
                              e.addedBy = m.addedBy /\ e.tmdbId = m.tmdbId
                              /\ e.watchStatus = "watched"})
                 IN  /\ (k = 0) => m.watchStatus = "planned"
                     /\ (0 < k /\ k < N) => m.watchStatus = "watching"
                     /\ (k = N /\ N > 0) => m.watchStatus = "completed"

\* one episode watched, one skipped: the row says watching, with the watched
\* episode's runtime
C3_Witness ==
    \E s \in Slots :
        /\ req[s].op = "updateTVShowStats" /\ req[s].pc = "done"
        /\ \E e \in episodes : e.watchStatus = "watched"
        /\ \E e \in episodes : e.watchStatus = "skipped"
        /\ \A e \in episodes : e.watchStatus # "unwatched"
        /\ \E m \in media : m.type = "tv" /\ m.watchStatus = "watching"
                             /\ m.watchTimeMinutes \in {45, 50}

\* C6: once the reconciler has run, running it again on the same Episode rows
\* changes neither the status nor the watch time of the Media row.
C6_ReconcilerIdempotent ==
    [][nreq >= 2 => media' = media]_vars

\* a second run has ended on a row the first run had to rewrite
C6_Witness ==
    \E s \in Slots :
        /\ req[s].op = "updateTVShowStats" /\ req[s].pc = "done" /\ nreq >= 2
        /\ \E m \in media : m.watchStatus = "completed" /\ m.watchTimeMinutes = 95

\* the last save of a reconciliation: no other request is in flight
LastReconcilerSave(s) ==
    /\ req[s].op = "updateEpisodeStatus"
    /\ req[s].pc = "stats_save" /\ req'[s].pc = "done"
    /\ \A o \in Slots \ {s} : req[o].pc \in {"idle", "done"}

\* C7 (as claimed): after interleaved updateEpisodeStatus requests the Media row
\* ends with the status and the watch time of the reconciliation that saved last.
C7_LastSaverWins ==
    [][\A s \in Slots :
         LastReconcilerSave(s)
         => \A m \in media' :
               m.id = req[s].doc.id
               => /\ m.watchStatus = req[s].doc.watchStatus
                  /\ m.watchTimeMinutes = req[s].doc.watchTimeMinutes]_vars

\* C7 (amended): a reconciliation's save writes, of status and watch time, only
\* the field whose computed value differs from the value it had read from the
\* Media row, and leaves the other as the store holds it; so the row ends, field
\* by field, with the value of the last save that wrote the field.  (The stale
\* final state of the claim is the witness.)
C7_LastWriterPerField ==
    [][\A s \in Slots :
         (req[s].pc = "stats_save" /\ req'[s].pc = "done")
         => \A m \in media :
               m.id = req[s].doc.id
               => \E w \in media' :
                     /\ w.id = m.id
                     /\ w.watchStatus = IF "watchStatus" \in req[s].dirty
                                        THEN req[s].doc.watchStatus
                                        ELSE m.watchStatus
                     /\ w.watchTimeMinutes = IF "watchTimeMinutes" \in req[s].dirty
                                             THEN req[s].doc.watchTimeMinutes
                                             ELSE m.watchTimeMinutes]_vars

\* two updateEpisodeStatus requests for different episodes have both answered
\* and the row differs from what the final Episode rows give
C7_Witness ==
    /\ req[1].op = "updateEpisodeStatus" /\ req[1].pc = "done" /\ req[1].code = 200
    /\ req[2].op = "updateEpisodeStatus" /\ req[2].pc = "done" /\ req[2].code = 200
    /\ req[1].epId # req[2].epId
    /\ \E m \in media : m.type = "tv" /\ ~Reconciled(m)

\* the request names, by id, a row of its own user
NamesOwnRow(s) ==
    \/ /\ req'[s].op = "updateWatchStatus"
       /\ \E m \in media : m.id = req'[s].mediaId /\ m.addedBy = req'[s].user
    \/ /\ req'[s].op = "updateEpisodeStatus"
       /\ \E e \in episodes : EpId(e) = req'[s].epId /\ e.addedBy = req'[s].user

\* the row the request names holds the rating the request carried
RatingStored(s) ==
    \/ /\ req[s].op = "updateWatchStatus"
       /\ \E m \in media' : m.id = req[s].mediaId /\ m.rating = req[s].rating
    \/ /\ req[s].op = "updateEpisodeStatus"
       /\ \E e \in episodes' : EpId(e) = req[s].epId /\ e.rating = req[s].rating

\* C8: updateWatchStatus and updateEpisodeStatus on a row of the caller with a
\* rating below 1 or above 5 answer 400 and persist nothing (not the rating, not
\* a valid status sent along, not watched-at, not the parent row); a rating from
\* 1 to 5 is accepted and stored by the save.
C8_RatingRange ==
    [][\A s \in Slots :
         /\ (Starts(s) /\ NamesOwnRow(s) /\ req'[s].rating # Undef
               /\ (req'[s].rating < 1 \/ req'[s].rating > 5))
            => (Rejected(s, 400) /\ StoresUnchanged)
         /\ (Starts(s) /\ NamesOwnRow(s) /\ req'[s].rating \in 1 .. 5
               /\ req'[s].watchStatus # "bogus")
            => req'[s].pc = "save"
         /\ (req[s].pc = "save" /\ req'[s].pc # "save" /\ req[s].rating \in 1 .. 5
               /\ req[s].op \in {"updateWatchStatus", "updateEpisodeStatus"})
            => RatingStored(s)]_vars

\* rating 6 sent with status watched for an own, unwatched episode: 400, and the
\* episode is still unwatched and unrated
C8_Witness ==
    \E s \in Slots :
        /\ req[s].op = "updateEpisodeStatus" /\ req[s].pc = "done" /\ req[s].code = 400
        /\ req[s].rating = 6 /\ req[s].watchStatus = "watched"
        /\ \E e \in episodes : /\ EpId(e) = req[s].epId /\ e.addedBy = req[s].user
                               /\ e.watchStatus = "unwatched" /\ e.rating = Undef
\* the request names an account that holds a code and is not verified yet
AwaitsCode(s, usr) ==
    /\ req'[s].op = "verifyOTP"
    /\ usr \in users /\ usr.email = req'[s].email
    /\ ~usr.isEmailVerified /\ usr.otp # "" /\ usr.otpExpires # Undef

\* C10: a code is issued with an expiry 10 minutes after its issue.  verifyOTP
\* with the account's code at a time up to the expiry is accepted and its save
\* marks the e-mail verified with a 200; with the account's code after the
\* expiry it answers 400 and the account stays unverified; with another code
\* it answers 400 at any time and changes nothing.
C10_VerifyOtp ==
    [][\A s \in Slots :
         /\ (req[s].op = "register" /\ req[s].pc = "hash" /\ req'[s].pc = "save")
            => req'[s].doc.otpExpires = now + 10
         /\ \A usr \in users :
               (Starts(s) /\ AwaitsCode(s, usr))
               => /\ (req'[s].otp = usr.otp /\ now <= usr.otpExpires)
                     => req'[s].pc = "save"
                  /\ (req'[s].otp = usr.otp /\ now > usr.otpExpires)
                     => (Rejected(s, 400) /\ users' = users)
                  /\ (req'[s].otp # usr.otp)
                     => (Rejected(s, 400) /\ users' = users)
         /\ (req[s].op = "verifyOTP" /\ req[s].pc = "save" /\ req'[s].pc # "save")
            => /\ req'[s].code = 200
               /\ \E usr \in users' : usr.email = req[s].email /\ usr.isEmailVerified]_vars

\* the account's own code, sent after its expiry, was answered 400 and the
\* account is still unverified
C10_Witness ==
    \E s \in Slots : \E usr \in users :
        /\ req[s].op = "verifyOTP" /\ req[s].pc = "done" /\ req[s].code = 400
        /\ usr.email = req[s].email /\ usr.otp = req[s].otp
        /\ ~usr.isEmailVerified /\ usr.otpExpires # Undef /\ now > usr.otpExpires
\* C11: once a verifyOTP has succeeded for an account, every later verifyOTP
\* for that account is answered 400, whatever code the body carries, a body
\* without a code included.
C11_VerifiedOnce ==
    [][\A s \in Slots :
         (Starts(s) /\ req'[s].op = "verifyOTP"
            /\ req'[s].email \in history.verified)
         => Rejected(s, 400)]_vars
\* the request is a use of reset token T: verifyResetToken, or resetPassword
\* with a new password of six characters or more
UsesResetToken(s) ==
    \/ req'[s].op = "verifyResetToken"
    \/ req'[s].op = "resetPassword" /\ req'[s].password = "longer1"

\* the use is accepted: verifyResetToken answers 200, resetPassword goes on to
\* hash the new password
ResetTokenAccepted(s) ==
    \/ req'[s].op = "verifyResetToken" /\ req'[s].pc = "done" /\ req'[s].code = 200
    \/ req'[s].op = "resetPassword" /\ req'[s].pc = "hash"

\* C12: once resetPassword has succeeded with token T, every later
\* verifyResetToken(T) and resetPassword(T) is answered 400 and changes no
\* account, so the password is not changed again.
C12_ResetTokenSingleUse ==
    [][\A s \in Slots :
         (Starts(s) /\ req'[s].op \in {"verifyResetToken", "resetPassword"}
            /\ req'[s].token \in history.spent)
         => (Rejected(s, 400) /\ users' = users)]_vars

\* a second resetPassword with a spent token and a good new password was
\* answered 400 within the token's hour; the account has the first new password
C12_Witness ==
    \E s \in Slots : \E usr \in users :
        /\ req[s].op = "resetPassword" /\ req[s].pc = "done" /\ req[s].code = 400
        /\ req[s].token \in history.spent /\ req[s].password = "longer1"
        /\ usr.password = <<"bcrypt", "longer1">> /\ now < 60

\* C13: a reset token issued at t0 expires at t0 + 60 minutes.  While the clock
\* is before the expiry verifyResetToken and resetPassword accept it; at the
\* expiry and after it both answer 400 and the account's password, token and
\* expiry are unchanged.
C13_ResetTokenTimeBoxed ==
    [][\A s \in Slots :
         /\ (Starts(s) /\ req'[s].op = "requestPasswordReset" /\ req'[s].pc = "save")
            => req'[s].doc.resetPasswordExpires = now + 60
         /\ \A usr \in users :
               (Starts(s) /\ UsesResetToken(s)
                  /\ usr.resetPasswordToken = <<"sha256", req'[s].token>>)
               => /\ (now < usr.resetPasswordExpires) => ResetTokenAccepted(s)
                  /\ (now >= usr.resetPasswordExpires)
                     => (Rejected(s, 400) /\ users' = users)]_vars

\* resetPassword with the stored token exactly at its expiry was answered 400
\* and the account still has its registration password and the token
C13_Witness ==
    \E s \in Slots : \E usr \in users :
        /\ req[s].op = "resetPassword" /\ req[s].pc = "done" /\ req[s].code = 400
        /\ req[s].password = "longer1"
        /\ usr.resetPasswordToken = <<"sha256", req[s].token>>
        /\ now = usr.resetPasswordExpires
        /\ usr.password = <<"bcrypt", "pw1">>

\* C19: when the mail cannot be sent, register and requestPasswordReset answer
\* 500 and what they saved before stays: the account with its code and expiry
\* (a register with the same e-mail is then answered 400), and the reset token
\* with its expiry, which is still accepted while unexpired and stored.
C19_MailFailureKeepsState ==
    [][\A s \in Slots :
         /\ (req[s].op = "register" /\ req[s].pc = "mail" /\ req'[s].code = 500)
            => /\ users' = users
               /\ \E usr \in users' : /\ usr.email = req[s].email
                                      /\ usr.otp = req[s].otp
                                      /\ usr.otpExpires # Undef
         /\ (Starts(s) /\ req'[s].op = "register"
               /\ req'[s].email \in history.unsentOtp)
            => Rejected(s, 400)
         /\ (req[s].op = "requestPasswordReset" /\ req[s].pc = "mail"
               /\ req'[s].code = 500)
            => /\ users' = users
               /\ \E usr \in users' :
                     /\ usr.resetPasswordToken = <<"sha256", req[s].token>>
                     /\ usr.resetPasswordExpires # Undef
         /\ \A usr \in users :
               (Starts(s) /\ UsesResetToken(s)
                  /\ req'[s].token \in history.unsentReset
                  /\ usr.resetPasswordToken = <<"sha256", req'[s].token>>
                  /\ now < usr.resetPasswordExpires)
               => ResetTokenAccepted(s)]_vars

\* a token whose mail was not sent has reset the password of an account whose
\* registration mail was not sent either
C19_Witness ==
    \E s \in Slots : \E usr \in users :
        /\ req[s].op = "resetPassword" /\ req[s].pc = "done" /\ req[s].code = 200
        /\ req[s].token \in history.unsentReset
        /\ usr.email \in history.unsentOtp
        /\ usr.password = <<"bcrypt", "longer1">>

\* C20: login answers 200 (with the tokens) only for an account that a
\* verifyOTP has verified, that is APPROVED and whose password matches; login
\* for an unverified account is answered 403.
C20_LoginNeedsVerifiedAccount ==
    [][\A s \in Slots :
         /\ (req'[s].op = "login" /\ req[s].pc # "done"
               /\ req'[s].pc = "done" /\ req'[s].code = 200)
            => /\ req'[s].email \in history.verified
               /\ \E usr \in users : /\ usr.email = req'[s].email
                                     /\ usr.isEmailVerified
                                     /\ usr.approved = "APPROVED"
                                     /\ usr.password = <<"bcrypt", req'[s].password>>
         /\ \A usr \in users :
               (Starts(s) /\ req'[s].op = "login" /\ usr.email = req'[s].email
                  /\ ~usr.isEmailVerified)
               => Rejected(s, 403)]_vars

\* a login was answered 200 for an account a verifyOTP had verified
C20_Witness ==
    \E s \in Slots :
        /\ req[s].op = "login" /\ req[s].pc = "done" /\ req[s].code = 200
        /\ req[s].email \in history.verified
\* C14: every Episode row that has a watched-at time has status watched.
C14_WatchedAtOnlyWhenWatched ==
    \A e \in episodes : e.watchedAt # Undef => e.watchStatus = "watched"

\* C15: a second fetchSeason in a row, with the catalog answer of the first,
\* changes no Episode row, and no step leaves two rows for one (user, show,
\* season, episode).
C15_FetchIdempotent ==
    [][/\ req[2].op = "fetchTVShowEpisodes" => episodes' = episodes
       /\ \A e1, e2 \in episodes' :
             (e1.addedBy = e2.addedBy /\ e1.tmdbId = e2.tmdbId
                /\ e1.seasonNumber = e2.seasonNumber
                /\ e1.episodeNumber = e2.episodeNumber) => e1 = e2]_vars

\* both calls have answered 200 for a season of MaxEpisodes episodes and the
\* store holds that many rows
C15_Witness ==
    /\ req[1].op = "fetchTVShowEpisodes" /\ req[1].pc = "done" /\ req[1].code = 200
    /\ req[2].op = "fetchTVShowEpisodes" /\ req[2].pc = "done" /\ req[2].code = 200
    /\ req[2].n = MaxEpisodes
    /\ Cardinality(episodes) = MaxEpisodes

\* C16: a fetchSeason step leaves the watchStatus, watchedAt and rating of
\* every Episode row that already exists as they are.
C16_FetchKeepsProgress ==
    [][\A s \in Slots :
         (req[s].op = "fetchTVShowEpisodes" /\ req[s].pc = "upsert")
         => \A e \in episodes : \E w \in episodes' :
               /\ EpId(w) = EpId(e)
               /\ w.watchStatus = e.watchStatus
               /\ w.watchedAt = e.watchedAt
               /\ w.rating = e.rating]_vars

\* C17: every Media row's status is planned, watching or completed; a row is
\* inserted as planned; the save of an updateWatchStatus that carried any other
\* status value leaves the stored status as it was.
C17_MediaStatusInEnum ==
    [][/\ \A m \in media' : m.watchStatus \in {"planned", "watching", "completed"}
       /\ \A m \in media' :
             (\A x \in media : x.id # m.id) => m.watchStatus = "planned"
       /\ \A s \in Slots :
             (req[s].op = "updateWatchStatus" /\ req[s].pc = "save"
                /\ req[s].watchStatus \notin {"planned", "watching", "completed"})
             => \A m \in media : \E w \in media' :
                   w.id = m.id /\ w.watchStatus = m.watchStatus]_vars

\* an updateWatchStatus that carried the status bogus was answered 200 and the
\* row, which had been set to completed before, is still completed
C17_Witness ==
    \E s \in Slots :
        /\ req[s].op = "updateWatchStatus" /\ req[s].pc = "done" /\ req[s].code = 200
        /\ req[s].watchStatus = "bogus"
        /\ \E m \in media : m.id = req[s].mediaId /\ m.watchStatus = "completed"

\* C18: the Episode store never holds two rows for one (user, show, season,
\* episode number), also while fetchSeason requests of one user for one season
\* interleave.
C18_OneRowPerEpisode ==
    \A e1, e2 \in episodes : EpId(e1) = EpId(e2) => e1 = e2

\* two fetchSeason requests of one user are both between their upserts, on a
\* store where an episode had been marked watched before
C18_Witness ==
    /\ req[1].op = "fetchTVShowEpisodes" /\ req[1].pc = "upsert" /\ req[1].i = 2
    /\ req[2].op = "fetchTVShowEpisodes" /\ req[2].pc = "upsert" /\ req[2].i = 2
    /\ req[1].user = req[2].user
    /\ \E e \in episodes : e.watchedAt # Undef
\* the sum of the watch times of u's completed rows
CompletedTime(u) ==
    SumWatchTime({m \in media : m.addedBy = u /\ m.watchStatus = "completed"})

\* C21: getWatchlistStats answers 200 with plannedCount + watchingCount +
\* completedCount = totalItems = movieStats.total + tvStats.total and
\* totalWatchTime = movieStats.watchTime + tvStats.watchTime = the watch time of
\* the caller's completed rows; with no rows every count and time is 0.
C21_StatsAddUp ==
    \A s \in Slots :
        (req[s].op = "getWatchlistStats" /\ req[s].pc = "done"
           /\ req[s].error = "none")
        => LET d == req[s].res
               own == {m \in media : m.addedBy = req[s].user}
           IN  /\ req[s].code = 200
               /\ d.plannedCount + d.watchingCount + d.completedCount = d.totalItems
               /\ d.totalItems = d.movieStats.total + d.tvStats.total
               /\ d.totalItems = Cardinality(own)
               /\ d.totalWatchTime = d.movieStats.watchTime + d.tvStats.watchTime
               /\ d.totalWatchTime = CompletedTime(req[s].user)
               /\ (own = {}) =>
                     /\ d.totalItems = 0 /\ d.totalWatchTime = 0
                     /\ d.plannedCount = 0 /\ d.watchingCount = 0
                     /\ d.completedCount = 0
                     /\ d.movieStats = [total |-> 0, completed |-> 0, watchTime |-> 0]
                     /\ d.tvStats = [total |-> 0, completed |-> 0, watchTime |-> 0]

\* the stats of a user with a completed movie and a planned show
C21_Witness ==
    \E s \in Slots :
        /\ req[s].op = "getWatchlistStats" /\ req[s].pc = "done" /\ req[s].code = 200
        /\ req[s].res.totalItems = 2
        /\ req[s].res.completedCount = 1 /\ req[s].res.plannedCount = 1
        /\ req[s].res.totalWatchTime = 100
        /\ req[s].res.tvStats.total = 1

ReadOps == {"getWatchlist", "getWatchlistStats", "getTVShowEpisodes",
            "generateMediaReport"}

\* C22: no step of getWatchlist, getWatchlistStats, getTVShowEpisodes or
\* generateMediaReport changes the User, Media or Episode store, whether the
\* request ends in success or in an error.
C22_ReadsChangeNothing ==
    [][\A s \in Slots :
         (req'[s] # req[s] /\ req'[s].op \in ReadOps)
         => (users' = users /\ media' = media /\ episodes' = episodes)]_vars

\* an episode read was answered 200 with its episode, on stores that hold rows
C22_Witness ==
    \E s \in Slots :
        /\ req[s].op = "getTVShowEpisodes" /\ req[s].pc = "done" /\ req[s].code = 200
        /\ req[s].res.totalEpisodes = 1
        /\ episodes # {} /\ media # {}

\* u's rows that pass the status filter of a getWatchlist request
OwnFiltered(u, status) ==
    {m \in media : /\ m.addedBy = u
                   /\ (status \in {"planned", "watching", "completed"}
                          => m.watchStatus = status)}

C24_ErrorsAnswered500 ==
    [][\A s \in Slots :
         (req[s].pc # "done" /\ req'[s].pc = "done")
         => /\ ~req'[s].escaped
            /\ req'[s].error \in {"store", "catalog", "pdf"} => req'[s].code = 500]_vars

\* C27 (as claimed): of two resetPassword requests with the same token that
\* are both answered, at most one is answered 200.
C27_OneResetPerToken ==
    \A s1, s2 \in Slots :
        (/\ s1 # s2
         /\ req[s1].op = "resetPassword" /\ req[s2].op = "resetPassword"
         /\ req[s1].token = req[s2].token
         /\ req[s1].pc = "done" /\ req[s2].pc = "done")
        => ~(req[s1].code = 200 /\ req[s2].code = 200)

\* the stored token of an account, as the token number it is the hash of
StoredTokens == {k \in ResetTokens : \E usr \in users :
                                        usr.resetPasswordToken = <<"sha256", k>>}

\* C28: the save of requestPasswordReset stores the hash of the new token and
\* its expiry over what the account held; every use of an issued token that is
\* not the stored one is answered 400 and changes no account; and
\* requestPasswordReset for an e-mail without account is answered 200 and
\* changes no account.  No account ever holds two tokens.
C28_OneAcceptableToken ==
    [][\A s \in Slots :
         /\ (req[s].op = "requestPasswordReset" /\ req[s].pc = "save"
               /\ req'[s].pc # "save")
            => \E usr \in users' :
                  /\ usr.email = req[s].email
                  /\ usr.resetPasswordToken = <<"sha256", req[s].token>>
                  /\ usr.resetPasswordExpires = req[s].doc.resetPasswordExpires
                  /\ req[s].token \notin history.issued
         /\ (Starts(s) /\ UsesResetToken(s) /\ req'[s].token \in history.issued
               /\ req'[s].token \notin StoredTokens)
            => (Rejected(s, 400) /\ users' = users)
         /\ (Starts(s) /\ req'[s].op = "requestPasswordReset" /\ req'[s].email # ""
               /\ \A usr \in users : usr.email # req'[s].email)
            => (Rejected(s, 200) /\ users' = users)
         /\ Cardinality(StoredTokens) <= Cardinality(users)]_vars

\* a token was refused within its hour because a later request had replaced it
\* with the token the account now holds
C28_Witness ==
    \E s \in Slots : \E j \in StoredTokens :
        /\ req[s].op = "verifyResetToken" /\ req[s].pc = "done" /\ req[s].code = 400
        /\ req[s].token \in history.issued \ history.spent
        /\ j \in history.issued /\ j > req[s].token
        /\ now < ResetTtl

\* the estimate a catalog answer stands for
Estimate(type, d) ==
    CASE ~d.ok /\ type = "movie" -> 120
      [] ~d.ok /\ type # "movie" -> 45
      [] d.ok /\ type = "movie" -> IF d.runtime = 0 THEN 120 ELSE d.runtime
      [] OTHER -> (IF d.number_of_episodes = 0 THEN 1 ELSE d.number_of_episodes)
                    * (IF d.episode_run_time = 0 THEN 45 ELSE d.episode_run_time)

\* C26: an add goes from its catalog call to its save whatever the catalog
\* answered; the save is answered 201 and creates exactly one row, planned,
\* whose watchTimeMinutes is the estimate for the catalog's answer (the fallback
\* 120 or 45 when the call failed) through addToWatchlist and 0 through
\* addTVShowToWatchlist.
C26_InitialWatchTime ==
    [][\A s \in Slots :
         /\ (req[s].op \in AddOps /\ req[s].pc = "tmdb" /\ req'[s].pc # "tmdb")
            => req'[s].pc = "save" /\ StoresUnchanged
         /\ (req[s].op \in AddOps /\ req[s].pc = "save" /\ req'[s].pc # "save")
            =>
            /\ Rejected(s, 201)
            /\ \E m \in media' \ media :
                  /\ media' = media \cup {m}
                  /\ m.addedBy = req[s].user /\ m.tmdbId = req[s].tmdbId
                  /\ m.watchStatus = "planned"
                  /\ m.watchTimeMinutes =
                        IF req[s].op = "addToWatchlist"
                        THEN Estimate(req[s].type, req[s].details)
                        ELSE 0]_vars

\* a movie added while the catalog was failing holds 120 minutes next to a show
\* of two episodes of 50 minutes that holds 100
C26_Witness ==
    /\ \E s \in Slots : /\ req[s].op = "addToWatchlist" /\ req[s].pc = "done"
                         /\ req[s].code = 201 /\ req[s].type = "movie"
                         /\ ~req[s].details.ok
    /\ \E m \in media : m.type = "movie" /\ m.watchTimeMinutes = 120
    /\ \E m \in media : m.type = "tv" /\ m.watchTimeMinutes = 100

\* the stored episode with the id the request names
EpisodeNamed(rows, s) == {e \in rows : EpId(e) = req[s].epId}

\* C25: when updateEpisodeStatus saves an episode, status watched stores watchedAt
\* as the time the handler ran at, status unwatched stores no watchedAt, and no
\* status field leaves the stored watchStatus and watchedAt as they were; a
\* status outside {unwatched, watched, skipped} is answered 400 in the first
\* step, with no store touched and no reconciler step to follow.
C25_WatchedAtFollowsStatus ==
    [][\A s \in Slots :
         /\ (Starts(s) /\ req'[s].op = "updateEpisodeStatus")
            => /\ req'[s].watchStatus \notin {"none", "unwatched", "watched", "skipped"}
                  => Rejected(s, 400) /\ StoresUnchanged
               /\ (req'[s].pc = "save" /\ req'[s].watchStatus = "watched")
                  => req'[s].doc.watchedAt = now
         /\ (req[s].op = "updateEpisodeStatus" /\ req[s].pc = "save"
               /\ req'[s].pc # "save")
            => \A e \in EpisodeNamed(episodes, s) :
                 \E e2 \in EpisodeNamed(episodes', s) :
                    CASE req[s].watchStatus = "watched"
                           -> e2.watchStatus = "watched"
                              /\ e2.watchedAt = req[s].doc.watchedAt
                      [] req[s].watchStatus = "unwatched"
                           -> e2.watchStatus = "unwatched" /\ e2.watchedAt = Undef
                      [] req[s].watchStatus = "none"
                           -> e2.watchStatus = e.watchStatus
                              /\ e2.watchedAt = e.watchedAt
                      [] OTHER -> e2.watchStatus = req[s].watchStatus]_vars

\* an episode watched at time 0 was marked watched again later and carries the
\* later time
C25_Witness ==
    \E s \in Slots :
        /\ req[s].op = "updateEpisodeStatus" /\ req[s].pc = "done" /\ req[s].code = 200
        /\ req[s].watchStatus = "watched"
        /\ \E e \in EpisodeNamed(episodes, s) : e.watchedAt > 1

\* the Media rows the reconciler of request s may write
ReconcilerTarget(s) ==
    {m \in media : m.addedBy = req[s].user /\ m.tmdbId = req[s].tmdbId /\ m.type = "tv"}

ReconcilerPcs == {"stats_episodes", "stats_media", "stats_save"}

C30_ReconcilerFailureSwallowed ==
    [][\A s \in Slots :
         /\ (req[s].op = "updateEpisodeStatus" /\ req[s].error # "reconciler"
               /\ req'[s].error = "reconciler")
            => /\ req'[s].pc = "done" /\ req'[s].code = 200
               /\ StoresUnchanged
               /\ req[s].watchStatus # "none"
                  => \A e \in EpisodeNamed(episodes', s) :
                        e.watchStatus = req[s].watchStatus
         /\ (req[s].error = "reconciler" /\ req'[s] # req[s])
            => req'[s] = IdleReq /\ StoresUnchanged]_vars

\* the reconciler failed after the episode was saved as watched: the request
\* was answered 200 and the tv row still says planned
C30_Witness ==
    \E s \in Slots :
        /\ req[s].op = "updateEpisodeStatus" /\ req[s].pc = "done" /\ req[s].code = 200
        /\ req[s].error = "reconciler" /\ req[s].watchStatus = "watched"
        /\ \E e \in EpisodeNamed(episodes, s) : e.watchStatus = "watched"
        /\ \E m \in media : /\ m.addedBy = req[s].user /\ m.type = "tv"
                             /\ m.watchStatus = "planned"
=============================================================================
